---- MODULE Spec2Model ----
(***************************************************************************)
(* Model of the claude-hook-advisor hook event pipeline (src/src/main.rs)  *)
(* and of the primary-command matcher of the library (src/src/hooks.rs).   *)
(*                                                                         *)
(* Strings are sequences of one-character strings.  A confidence (f32 in   *)
(* the source) is an integer number of 1/700ths, so that 0.05, 0.10, 0.70  *)
(* and the weekly decay 0.02/7 are all whole numbers; f32 rounding is not  *)
(* modelled.  Instants are whole days (the source only uses num_days()).   *)
(* A Rust Option is a set with at most one element.  A HashMap is a        *)
(* function; its iteration order is unspecified in Rust, so "the first     *)
(* entry that matches" is any entry that matches.                          *)
(***************************************************************************)
EXTENDS Integers, Sequences, FiniteSets, TLC

VARIABLES
    file,         \* the policy file on disk: {} or its text as a TOML document
    now,          \* Utc::now(), in days
    stdout,       \* what the last hook process wrote to standard output
    exit_status,  \* exit status of the last hook process
    ev,           \* the last event handled, with the handler's intermediate results
    procs,        \* hook processes that run step by step, concurrently
    temps         \* the temporary files in the policy file's directory, by name

vars == <<file, now, stdout, exit_status, ev, procs, temps>>

----------------------------------------------------------------------------
(* Strings *)

WhiteSpace == {" "}

NonWordChars == {" ", "-"}

IsWordChar(c) == c \notin NonWordChars

\* regex \b at offset k of s (between s[k] and s[k+1])
WordBoundary(s, k) ==
    LET before == k >= 1 /\ IsWordChar(s[k])
        after  == k < Len(s) /\ IsWordChar(s[k + 1])
    IN  before # after

\* regex \b<escaped p>\b matches s starting at index i
MatchAt(p, s, i) ==
    /\ Len(p) > 0
    /\ i + Len(p) - 1 <= Len(s)
    /\ SubSeq(s, i, i + Len(p) - 1) = p
    /\ WordBoundary(s, i - 1)
    /\ WordBoundary(s, i + Len(p) - 1)

\* Regex::is_match for \b<p>\b
IsMatch(p, s) == \E i \in 1..Len(s) : MatchAt(p, s, i)

RECURSIVE ReplaceFrom(_, _, _, _)
ReplaceFrom(p, r, s, i) ==
    IF i > Len(s) THEN <<>>
    ELSE IF MatchAt(p, s, i) THEN r \o ReplaceFrom(p, r, s, i + Len(p))
    ELSE <<s[i]>> \o ReplaceFrom(p, r, s, i + 1)

\* Regex::replace_all for \b<p>\b: every non-overlapping match, left to right
ReplaceAll(p, r, s) == ReplaceFrom(p, r, s, 1)

\* str::contains
Contains(s, t) ==
    \E i \in 1..(Len(s) - Len(t) + 1) : SubSeq(s, i, i + Len(t) - 1) = t

RECURSIVE StrReplaceFrom(_, _, _, _)
StrReplaceFrom(s, from, to, i) ==
    IF i > Len(s) THEN <<>>
    ELSE IF i + Len(from) - 1 <= Len(s) /\ SubSeq(s, i, i + Len(from) - 1) = from
         THEN to \o StrReplaceFrom(s, from, to, i + Len(from))
    ELSE <<s[i]>> \o StrReplaceFrom(s, from, to, i + 1)

\* str::replace
StrReplace(s, from, to) == StrReplaceFrom(s, from, to, 1)

\* the command begins with p followed by whitespace or end-of-string
StartsWithToken(s, p) ==
    /\ Len(p) > 0
    /\ Len(p) <= Len(s)
    /\ SubSeq(s, 1, Len(p)) = p
    /\ (Len(s) = Len(p) \/ s[Len(p) + 1] \in WhiteSpace)

----------------------------------------------------------------------------
(* Maps *)

EmptyMap == [k \in {} |-> {}]

Put(m, k, v) == [x \in (DOMAIN m) \cup {k} |-> IF x = k THEN v ELSE m[x]]

Remove(m, k) == [x \in (DOMAIN m) \ {k} |-> m[x]]

----------------------------------------------------------------------------
(* Pattern matcher *)

\* the parts a format!() reason is built from: the text names the pattern,
\* the replacement and the command after substitution
Reason(kind, pattern, replacement, running) ==
    [ kind |-> kind, pattern |-> pattern, replacement |-> replacement,
      running |-> running, prefix |-> "", context |-> {} ]

\* main.rs check_pattern_matches: the PatternMatch of any entry whose
\* \b<pattern>\b occurs in the command (None is the empty set)
check_pattern_matches(patterns, command) ==
    { [ pattern |-> p,
        suggested_command |-> ReplaceAll(p, patterns[p], command),
        reason |-> Reason("Tool preference", p, patterns[p],
                          ReplaceAll(p, patterns[p], command)) ]
      : p \in { q \in DOMAIN patterns : IsMatch(q, command) } }

\* hooks.rs check_command_mappings: regex ^(<pattern>)(\s|$), the replacement
\* closure keeps capture 2 and everything after the match
hooks_check_command_mappings(commands, command) ==
    { [ pattern |-> p,
        suggested_command |-> commands[p] \o SubSeq(command, Len(p) + 1, Len(command)) ]
      : p \in { q \in DOMAIN commands : StartsWithToken(command, q) } }

----------------------------------------------------------------------------
(* Command-mapping resolver *)

\* 0.7 in 1/700ths
DEFAULT_CONFIDENCE_THRESHOLD == 490

\* 1.0 in 1/700ths: the confidence of never-suggest and static results
FullConfidence == 700

\* a gate that also rejects an entry exactly at the threshold
resolve_learned_mapping_strict(mappings, command, source, confidence_threshold) ==
    { [ original_command |-> command,
        replacement_command |-> ReplaceAll(p, mappings[p].replacement, command),
        confidence |-> mappings[p].confidence,
        source |-> source,
        reason |-> Reason("Learned preference", p, mappings[p].replacement,
                          ReplaceAll(p, mappings[p].replacement, command)) ]
      : p \in { q \in DOMAIN mappings :
                  /\ mappings[q].confidence > confidence_threshold
                  /\ IsMatch(q, command) } }

\* main.rs resolve_learned_mapping: entries below the threshold are skipped,
\* any remaining entry whose \b<pattern>\b occurs in the command is returned
resolve_learned_mapping(mappings, command, source, confidence_threshold) ==
    { [ original_command |-> command,
        replacement_command |-> ReplaceAll(p, mappings[p].replacement, command),
        confidence |-> mappings[p].confidence,
        source |-> source,
        reason |-> Reason("Learned preference", p, mappings[p].replacement,
                          ReplaceAll(p, mappings[p].replacement, command)) ]
      : p \in { q \in DOMAIN mappings :
                  /\ ~(mappings[q].confidence < confidence_threshold)
                  /\ IsMatch(q, command) } }

\* a result that carries the command as it was
FromPatternMatch_unsubstituted(ms, command, source) ==
    { [ original_command |-> command,
        replacement_command |-> command,
        confidence |-> FullConfidence,
        source |-> source,
        reason |-> m.reason ] : m \in ms }

\* main.rs resolve_command_mapping: the ResolvedMapping made of a PatternMatch
FromPatternMatch(ms, command, source) ==
    { [ original_command |-> command,
        replacement_command |-> m.suggested_command,
        confidence |-> FullConfidence,
        source |-> source,
        reason |-> IF source = "NeverSuggest"
                   THEN [m.reason EXCEPT !.prefix = "User explicitly rejected suggestion"]
                   ELSE m.reason ] : m \in ms }

\* the results of the five tiers, each on its own
TierResults(config, command) ==
    [ never   |-> FromPatternMatch(check_pattern_matches(config.never_suggest, command),
                                   command, "NeverSuggest"),
      project |-> resolve_learned_mapping(config.learned.project, command,
                       "ProjectLearned", DEFAULT_CONFIDENCE_THRESHOLD),
      context |-> UNION { { [r EXCEPT !.reason.context = {c}]
                            : r \in resolve_learned_mapping(config.learned.context[c],
                                  command, "ContextLearned", DEFAULT_CONFIDENCE_THRESHOLD) }
                          : c \in DOMAIN config.learned.context },
      global  |-> resolve_learned_mapping(config.learned.global, command,
                       "GlobalLearned", DEFAULT_CONFIDENCE_THRESHOLD),
      static  |-> FromPatternMatch(check_pattern_matches(config.commands, command),
                                   command, "Static") ]

\* a resolver that consults never_suggest after every other tier
resolve_command_mapping_never_last(config, command) ==
    LET t == TierResults(config, command)
    IN  IF t.project # {} THEN t.project
        ELSE IF t.context # {} THEN t.context
        ELSE IF t.global # {} THEN t.global
        ELSE IF t.static # {} THEN t.static
        ELSE t.never

\* a resolver that consults the global tier before the project tier
resolve_command_mapping_global_first(config, command) ==
    LET t == TierResults(config, command)
    IN  IF t.never # {} THEN t.never
        ELSE IF t.global # {} THEN t.global
        ELSE IF t.project # {} THEN t.project
        ELSE IF t.context # {} THEN t.context
        ELSE t.static

\* main.rs resolve_command_mapping: never_suggest, then project, context,
\* global learned mappings, then the static commands; the set of results the
\* call can return (empty: None)
resolve_command_mapping(config, command) ==
    LET never   == check_pattern_matches(config.never_suggest, command)
        project == resolve_learned_mapping(config.learned.project, command,
                       "ProjectLearned", DEFAULT_CONFIDENCE_THRESHOLD)
        context == UNION { { [r EXCEPT !.reason.context = {c}]
                             : r \in resolve_learned_mapping(config.learned.context[c],
                                   command, "ContextLearned", DEFAULT_CONFIDENCE_THRESHOLD) }
                           : c \in DOMAIN config.learned.context }
        global  == resolve_learned_mapping(config.learned.global, command,
                       "GlobalLearned", DEFAULT_CONFIDENCE_THRESHOLD)
        static  == check_pattern_matches(config.commands, command)
    IN  IF never # {} THEN FromPatternMatch(never, command, "NeverSuggest")
        ELSE IF project # {} THEN project
        ELSE IF context # {} THEN context
        ELSE IF global # {} THEN global
        ELSE FromPatternMatch(static, command, "Static")

\* main.rs check_command_mappings: a never-suggest result is turned into None
check_command_mappings_of(resolved) ==
    { [ suggestion |-> r.reason, replacement_cmd |-> r.replacement_command ]
      : r \in { x \in resolved : x.source # "NeverSuggest" } }

check_command_mappings(config, command) ==
    check_command_mappings_of(resolve_command_mapping(config, command))

----------------------------------------------------------------------------
(* Policy store *)

\* Option::unwrap
Unwrap(opt) == CHOOSE x \in opt : TRUE

CURRENT_VERSION == "0.3.0"

NewLearningMetadata(t, version) ==
    [ last_updated |-> t, total_mappings_learned |-> 0, session_mappings |-> 0,
      user_corrections |-> 0, version |-> version ]

EmptyLearned == [ global |-> EmptyMap, project |-> EmptyMap, context |-> EmptyMap ]

EmptyHistory ==
    [ command_executions |-> <<>>, suggestion_stats |-> EmptyMap,
      mapping_correlations |-> EmptyMap ]

\* The Option-typed sections of Config, LearnedMappings and ExecutionHistory.
\* A Config carries in `present` the sections that are Some; a section that
\* is None reads as an empty container, which is how every reader of the
\* code treats it (if let Some(..) = ..).
LearnedSections == { "learned", "learned.global", "learned.project", "learned.context" }

HistorySections ==
    { "execution_history", "execution_history.command_executions",
      "execution_history.suggestion_stats", "execution_history.mapping_correlations",
      "execution_history.user_overrides" }

Sections == LearnedSections \cup HistorySections \cup { "confidence_scores", "never_suggest" }

\* is the section Some, its enclosing section included
Has(present, section) ==
    /\ section \in present
    /\ section \in LearnedSections => "learned" \in present
    /\ section \in HistorySections => "execution_history" \in present

\* main.rs create_empty_config: only learning_meta is Some
create_empty_config(t) ==
    [ commands |-> EmptyMap,
      learned |-> EmptyLearned,
      learning_meta |-> {NewLearningMetadata(t, CURRENT_VERSION)},
      never_suggest |-> EmptyMap,
      execution_history |-> EmptyHistory,
      present |-> {} ]

\* main.rs migrate_legacy_config: the static mappings, everything else empty
migrate_legacy_config(legacy_commands, t) ==
    [ commands |-> legacy_commands,
      learned |-> EmptyLearned,
      learning_meta |-> {NewLearningMetadata(t, CURRENT_VERSION)},
      never_suggest |-> EmptyMap,
      execution_history |-> EmptyHistory,
      present |-> Sections ]

\* validate_and_migrate_config that leaves an absent never_suggest absent
validate_and_migrate_config_partial(config, t) ==
    LET meta == IF config.learning_meta = {} THEN NewLearningMetadata(t, "0.2.0")
                ELSE Unwrap(config.learning_meta)
    IN  [config EXCEPT
            !.present = @ \cup (IF "learned" \in @ THEN {} ELSE LearnedSections)
                          \cup { "confidence_scores" }
                          \cup (IF "execution_history" \in @ THEN {} ELSE HistorySections),
            !.learning_meta =
                { IF meta.version # CURRENT_VERSION
                  THEN [meta EXCEPT !.version = CURRENT_VERSION, !.last_updated = t]
                  ELSE meta }]

\* main.rs validate_and_migrate_config: a top-level section that is None is
\* set to an empty one (a None inside a section that is Some stays None); a
\* missing learning_meta is created with version 0.2.0; any version other
\* than the current one is overwritten and last_updated stamped
validate_and_migrate_config(config, t) ==
    LET meta == IF config.learning_meta = {} THEN NewLearningMetadata(t, "0.2.0")
                ELSE Unwrap(config.learning_meta)
    IN  [config EXCEPT
            !.present = @ \cup (IF "learned" \in @ THEN {} ELSE LearnedSections)
                          \cup { "confidence_scores", "never_suggest" }
                          \cup (IF "execution_history" \in @ THEN {} ELSE HistorySections),
            !.learning_meta =
                { IF meta.version # CURRENT_VERSION
                  THEN [meta EXCEPT !.version = CURRENT_VERSION, !.last_updated = t]
                  ELSE meta }]

\* The policy file's text as a TOML document: the tables of Config it holds
\* (`present`, with "commands" for [commands]), their contents, the names
\* of the tables and keys Config does not have (`unknown`), and what is
\* wrong with it (`defect`): "none"; "schema" when an optional table does not
\* fit its type, e.g. a learned entry without confidence; "syntax" when the
\* text is not TOML.
Document(config, present, unknown, defect) ==
    [ commands |-> config.commands,
      learned |->
          [ global  |-> IF Has(present, "learned.global")
                        THEN config.learned.global ELSE EmptyMap,
            project |-> IF Has(present, "learned.project")
                        THEN config.learned.project ELSE EmptyMap,
            context |-> IF Has(present, "learned.context")
                        THEN config.learned.context ELSE EmptyMap ],
      learning_meta |-> config.learning_meta,
      never_suggest |-> IF Has(present, "never_suggest")
                        THEN config.never_suggest ELSE EmptyMap,
      execution_history |->
          [ command_executions |->
                IF Has(present, "execution_history.command_executions")
                THEN config.execution_history.command_executions ELSE <<>>,
            suggestion_stats |->
                IF Has(present, "execution_history.suggestion_stats")
                THEN config.execution_history.suggestion_stats ELSE EmptyMap,
            mapping_correlations |->
                IF Has(present, "execution_history.mapping_correlations")
                THEN config.execution_history.mapping_correlations ELSE EmptyMap ],
      present |-> { x \in present : Has(present, x) },
      unknown |-> unknown,
      defect |-> defect ]

\* toml::to_string_pretty(config) that also leaves out never_suggest
to_string_pretty_lossy(config) ==
    Document(config, config.present \ { "never_suggest" }, {}, "none")

\* toml::to_string_pretty(config): [commands] and every section that is Some
\* (skip_serializing_if = "Option::is_none"); Config has no field that would
\* carry a table or key it does not know
to_string_pretty(config) ==
    Document(config, config.present \cup { "commands" }, {}, "none")

\* does toml::from_str::<Config> succeed: commands is the one required field
from_str_ok(content) == content.defect = "none" /\ "commands" \in content.present

\* does toml::from_str::<LegacyConfig> succeed: only [commands] is read
from_str_legacy_ok(content) == content.defect # "syntax" /\ "commands" \in content.present

\* toml::from_str::<Config>: a table that is not in the text is None, a
\* table or key that is not in Config is skipped
from_str(content) ==
    LET doc == Document(content, content.present \ { "commands" }, {}, "none")
    IN  [ commands |-> doc.commands, learned |-> doc.learned,
          learning_meta |-> doc.learning_meta, never_suggest |-> doc.never_suggest,
          execution_history |-> doc.execution_history, present |-> doc.present ]

\* main.rs load_config returns Err: the file exists and parses neither as
\* Config nor as LegacyConfig
load_config_is_err(f) ==
    f # {} /\ ~ from_str_ok(Unwrap(f)) /\ ~ from_str_legacy_ok(Unwrap(f))

\* main.rs load_config, the Ok value: f is the file (an Option: {} when it
\* does not exist)
load_config(f, t) ==
    IF f = {} THEN create_empty_config(t)
    ELSE IF from_str_ok(Unwrap(f)) THEN validate_and_migrate_config(from_str(Unwrap(f)), t)
    ELSE migrate_legacy_config(Unwrap(f).commands, t)

\* main.rs save_config_atomic when no file operation fails: the file's new
\* content
save_config_atomic(config) == { to_string_pretty(config) }

----------------------------------------------------------------------------
(* Directory resolver *)

\* directory.rs resolve_directory, as far as detection depends on it:
\* semantic_directories maps an alias to the canonical path of its directory,
\* an Option that is None when the path cannot be resolved
resolve_directory(semantic_directories, alias) ==
    IF alias \in DOMAIN semantic_directories THEN semantic_directories[alias] ELSE {}

\* directory.rs detect_directory_references: every alias that \b<alias>\b
\* finds in the text and that resolves; of the resolutions with one canonical
\* path one is kept (the aliases are visited in the map's order).  The
\* results the call can return, each as the set of its elements.
detect_directory_references(semantic_directories, text) ==
    LET matched == { alias \in DOMAIN semantic_directories :
                       /\ IsMatch(alias, text)
                       /\ resolve_directory(semantic_directories, alias) # {} }
        paths == { Unwrap(resolve_directory(semantic_directories, alias)) : alias \in matched }
    IN  { { [ canonical_path |-> path, alias_used |-> kept[path] ] : path \in paths }
          : kept \in { k \in [paths -> matched] :
                         \A path \in paths :
                             resolve_directory(semantic_directories, k[path]) = { path } } }

----------------------------------------------------------------------------
(* Event router, pre-tool path *)

\* what one hook process leaves behind: the policy file, standard output,
\* the exit status, and what the handler computed on the way
\* (stderr holds the lines the router itself writes; the traces of the
\* handlers are not modelled)
Outcome(f, out, status, resolved, correlated, maintenance) ==
    [ file |-> f, stdout |-> out, stderr |-> <<>>, exit_status |-> status,
      resolved |-> resolved, correlated |-> correlated, maintenance |-> maintenance ]

Silent(f) == Outcome(f, <<>>, 0, {}, {}, FALSE)

\* main returns the Err of run_as_hook: nothing on stdout, exit status 1
Failed(f) == Outcome(f, <<>>, 1, {}, {}, FALSE)

\* a response that carries replacement_command in both modes
HookOutput_always_replacement(m, replace_mode) ==
    IF replace_mode
    THEN [ decision |-> "replace",
           reason |-> Reason("Command mapped", <<>>, <<>>, m.replacement_cmd),
           replacement_command |-> {m.replacement_cmd} ]
    ELSE [ decision |-> "block", reason |-> m.suggestion,
           replacement_command |-> {m.replacement_cmd} ]

\* main.rs HookOutput as handle_pre_tool_use fills it in
HookOutput(m, replace_mode) ==
    IF replace_mode
    THEN [ decision |-> "replace",
           reason |-> Reason("Command mapped", <<>>, <<>>, m.replacement_cmd),
           replacement_command |-> {m.replacement_cmd} ]
    ELSE [ decision |-> "block", reason |-> m.suggestion, replacement_command |-> {} ]

\* a pre-tool handler that counts the event in learning_meta and saves
handle_pre_tool_use_counting(hook_input, f, replace_mode, t) ==
    LET config == load_config(f, t)
        command == Unwrap(hook_input.command)
        counted == save_config_atomic(
                       [config EXCEPT !.learning_meta =
                           { [m EXCEPT !.session_mappings = @ + 1] : m \in @ }])
    IN  IF load_config_is_err(f) THEN {Failed(f)}
        ELSE IF hook_input.tool_name # "Bash" THEN {Silent(counted)}
        ELSE LET rs == resolve_command_mapping(config, command)
             IN  IF rs = {} THEN {Silent(counted)}
                 ELSE { LET m == check_command_mappings_of({r})
                        IN  IF m = {} THEN [Silent(counted) EXCEPT !.resolved = {r}]
                            ELSE Outcome(counted, <<HookOutput(Unwrap(m), replace_mode)>>, 0,
                                         {r}, {}, FALSE)
                        : r \in rs }

\* main.rs handle_pre_tool_use
handle_pre_tool_use(hook_input, f, replace_mode, t) ==
    LET config == load_config(f, t)
        command == Unwrap(hook_input.command)
    IN  IF load_config_is_err(f) THEN {Failed(f)}
        ELSE IF hook_input.tool_name # "Bash" THEN {Silent(f)}
        ELSE LET rs == resolve_command_mapping(config, command)
             IN  IF rs = {} THEN {Silent(f)}
                 ELSE { LET m == check_command_mappings_of({r})
                        IN  IF m = {} THEN [Silent(f) EXCEPT !.resolved = {r}]
                            ELSE Outcome(f, <<HookOutput(Unwrap(m), replace_mode)>>, 0,
                                         {r}, {}, FALSE)
                        : r \in rs }

----------------------------------------------------------------------------
(* Natural-language learner.  A prompt is its sequence of whitespace-       *)
(* separated words, lower-cased where the (?i) patterns ignore case; a      *)
(* "\s+" of a pattern is the gap between two words and an optional comma    *)
(* is dropped.                                                              *)

K_always   == <<"a","l","w","a","y","s">>
K_use      == <<"u","s","e">>
K_instead  == <<"i","n","s","t","e","a","d">>
K_of       == <<"o","f">>
K_for      == <<"f","o","r">>
K_this     == <<"t","h","i","s">>
K_the      == <<"t","h","e">>
K_project  == <<"p","r","o","j","e","c","t">>
K_projects == <<"p","r","o","j","e","c","t","s">>
K_lets     == <<"l","e","t","'","s">>
K_please   == <<"p","l","e","a","s","e">>
K_can      == <<"c","a","n">>
K_we       == <<"w","e">>
K_i        == <<"i">>
K_prefer   == <<"p","r","e","f","e","r">>
K_over     == <<"o","v","e","r">>
K_to       == <<"t","o">>

\* [a-zA-Z][a-zA-Z0-9_-]* spans the whole word
IsIdent(w) == Len(w) > 0 /\ \A k \in 1..Len(w) : w[k] \notin {"'", " "}

Lit(alts)    == [ kind |-> "lit", alts |-> alts, opt |-> FALSE ]
OptLit(alts) == [ kind |-> "lit", alts |-> alts, opt |-> TRUE ]
Cap          == [ kind |-> "cap", alts |-> {}, opt |-> FALSE ]

Politely == OptLit({<<K_lets>>, <<K_please>>})

\* main.rs NaturalLanguageParser::new: the patterns in the order they are tried;
\* confidences in 1/700ths
LearningPatterns ==
    << [ name |-> "always_use_instead", confidence |-> 665, scope |-> "global",
         regex |-> << Lit({<<K_always>>}), Lit({<<K_use>>}), Cap,
                      Lit({<<K_instead>>}), Lit({<<K_of>>}), Cap >> ],
       [ name |-> "always_use_for", confidence |-> 665, scope |-> "global",
         regex |-> << Lit({<<K_always>>}), Lit({<<K_use>>}), Cap,
                      Lit({<<K_for>>}), Cap >> ],
       [ name |-> "project_replacement", confidence |-> 644, scope |-> "project",
         regex |-> << Lit({<<K_for>>}), Lit({<<K_this>>, <<K_the>>}),
                      Lit({<<K_project>>}), Politely, Lit({<<K_use>>}), Cap,
                      Lit({<<K_instead>>}), Lit({<<K_of>>}), Cap >> ],
       [ name |-> "project_specific", confidence |-> 616, scope |-> "project",
         regex |-> << Lit({<<K_for>>}), Lit({<<K_this>>, <<K_the>>}),
                      Lit({<<K_project>>}), Politely, Lit({<<K_use>>}), Cap >> ],
       [ name |-> "context_specific", confidence |-> 602, scope |-> "context",
         regex |-> << Lit({<<K_for>>}), Cap, Lit({<<K_project>>, <<K_projects>>}),
                      Politely, Lit({<<K_use>>}), Cap >> ],
       [ name |-> "direct_replacement", confidence |-> 630, scope |-> "global",
         regex |-> << OptLit({<<K_lets>>, <<K_please>>, <<K_can, K_we>>}),
                      Lit({<<K_use>>}), Cap, Lit({<<K_instead>>}), Lit({<<K_of>>}),
                      Cap >> ],
       [ name |-> "preference_statement", confidence |-> 595, scope |-> "global",
         regex |-> << Lit({<<K_i>>}), Lit({<<K_prefer>>}), Cap,
                      Lit({<<K_over>>, <<K_to>>}), Cap >> ],
       [ name |-> "simple_replacement", confidence |-> 490, scope |-> "global",
         regex |-> << Lit({<<K_lets>>}), Lit({<<K_use>>}), Cap >> ] >>

UpperCase == <<"A","B","C","D","E","F","G","H","I","J","K","L","M",
               "N","O","P","Q","R","S","T","U","V","W","X","Y","Z">>
LowerCase == <<"a","b","c","d","e","f","g","h","i","j","k","l","m",
               "n","o","p","q","r","s","t","u","v","w","x","y","z">>

\* a to_lowercase that leaves the word as it is
to_lowercase_verbatim(w) == w

\* str::to_uppercase
to_uppercase(w) ==
    [ k \in 1..Len(w) |->
        IF \E n \in 1..Len(LowerCase) : LowerCase[n] = w[k]
        THEN UpperCase[CHOOSE n \in 1..Len(LowerCase) : LowerCase[n] = w[k]]
        ELSE w[k] ]

\* str::to_lowercase
to_lowercase(w) ==
    [ k \in 1..Len(w) |->
        IF \E n \in 1..Len(UpperCase) : UpperCase[n] = w[k]
        THEN LowerCase[CHOOSE n \in 1..Len(UpperCase) : UpperCase[n] = w[k]]
        ELSE w[k] ]

\* the words alt stand in text from index i on, case ignored
WordsAt(text, i, alt) ==
    /\ i + Len(alt) - 1 <= Len(text)
    /\ \A k \in 1..Len(alt) : to_lowercase(text[i + k - 1]) = alt[k]

\* the match of regex elements k.. at word i: {} or {[end, caps]} (end exclusive);
\* an optional group is taken when its words are there
RECURSIVE MatchElems(_, _, _, _, _)
MatchElems(regex, text, i, k, caps) ==
    IF k > Len(regex) THEN { [ end |-> i, caps |-> caps ] }
    ELSE LET e == regex[k]
         IN  IF e.kind = "cap"
             THEN IF i <= Len(text) /\ IsIdent(text[i])
                  THEN MatchElems(regex, text, i + 1, k + 1, Append(caps, text[i]))
                  ELSE {}
             ELSE LET taken == UNION { MatchElems(regex, text, i + Len(a), k + 1, caps)
                                       : a \in { x \in e.alts : WordsAt(text, i, x) } }
                  IN  IF taken # {} THEN taken
                      ELSE IF e.opt THEN MatchElems(regex, text, i, k + 1, caps)
                      ELSE {}

\* Regex::captures_iter: the leftmost match from word i on, then the next one
\* after its end
RECURSIVE CapturesIter(_, _, _)
CapturesIter(regex, text, i) ==
    IF i > Len(text) THEN <<>>
    ELSE LET m == MatchElems(regex, text, i, 1, <<>>)
         IN  IF m = {} THEN CapturesIter(regex, text, i + 1)
             ELSE LET c == Unwrap(m)
                  IN  << [ start |-> i, end |-> c.end, caps |-> c.caps ] >>
                      \o CapturesIter(regex, text, c.end)

T_bun    == <<"b","u","n">>
T_yarn   == <<"y","a","r","n">>
T_pnpm   == <<"p","n","p","m">>
T_bunx   == <<"b","u","n","x">>
T_rg     == <<"r","g">>
T_fd     == <<"f","d">>
T_bat    == <<"b","a","t">>
T_eza    == <<"e","z","a">>
T_exa    == <<"e","x","a">>
T_podman == <<"p","o","d","m","a","n">>
T_uv     == <<"u","v">>
T_npm    == <<"n","p","m">>
T_npx    == <<"n","p","x">>
T_grep   == <<"g","r","e","p">>
T_find   == <<"f","i","n","d">>
T_cat    == <<"c","a","t">>
T_ls     == <<"l","s">>
T_docker == <<"d","o","c","k","e","r">>
T_pip    == <<"p","i","p">>

\* an inference that falls back on npm
infer_original_guessing(replacement) ==
    IF replacement = T_bat THEN {T_cat} ELSE {T_npm}

\* main.rs infer_original_from_replacement (an Option)
infer_original_from_replacement(replacement) ==
    IF replacement \in {T_bun, T_yarn, T_pnpm} THEN {T_npm}
    ELSE IF replacement = T_bunx THEN {T_npx}
    ELSE IF replacement = T_rg THEN {T_grep}
    ELSE IF replacement = T_fd THEN {T_find}
    ELSE IF replacement = T_bat THEN {T_cat}
    ELSE IF replacement \in {T_eza, T_exa} THEN {T_ls}
    ELSE IF replacement = T_podman THEN {T_docker}
    ELSE IF replacement = T_uv THEN {T_pip}
    ELSE {}

\* a scope string: "global", "project" or "context:<name>"
Scope(kind, name) == [ kind |-> kind, name |-> name ]

ExtractedMapping(original, replacement, scope, confidence, context) ==
    [ original |-> original, replacement |-> replacement, scope |-> scope,
      confidence |-> confidence, source |-> "natural_language", context |-> context ]

\* an extraction that takes the two captures the other way round
extract_mapping_swapped(pattern, caps) ==
    IF pattern.name \in {"direct_replacement", "preference_statement",
                         "project_replacement", "always_use_for", "always_use_instead"}
    THEN { ExtractedMapping(caps[1], caps[2], Scope(pattern.scope, <<>>),
                            pattern.confidence, {}) }
    ELSE {}

\* main.rs extract_mapping_from_captures (an Option)
extract_mapping_from_captures(pattern, caps) ==
    IF pattern.name \in {"direct_replacement", "preference_statement",
                         "project_replacement", "always_use_for", "always_use_instead"}
    THEN { ExtractedMapping(caps[2], caps[1], Scope(pattern.scope, <<>>),
                            pattern.confidence, {}) }
    ELSE IF pattern.name = "project_specific"
    THEN { ExtractedMapping(o, caps[1], Scope(pattern.scope, <<>>),
                            pattern.confidence, {"project_preference"})
           : o \in infer_original_from_replacement(caps[1]) }
    ELSE IF pattern.name = "context_specific"
    THEN { ExtractedMapping(o, caps[2], Scope("context", to_lowercase(caps[1])),
                            pattern.confidence, {caps[1]})
           : o \in infer_original_from_replacement(caps[2]) }
    ELSE {}

\* the matches of all patterns, pattern by pattern, each left to right
RECURSIVE AllCaptures(_, _)
AllCaptures(text, n) ==
    IF n > Len(LearningPatterns) THEN <<>>
    ELSE LET ms == CapturesIter(LearningPatterns[n].regex, text, 1)
         IN  [ k \in 1..Len(ms) |-> [ pattern |-> LearningPatterns[n], m |-> ms[k] ] ]
             \o AllCaptures(text, n + 1)

\* the loop of extract_mappings without the overlap check
RECURSIVE ExtractFrom_overlapping(_, _, _, _)
ExtractFrom_overlapping(all, k, mappings, used_spans) ==
    IF k > Len(all) THEN [ mappings |-> mappings, used_spans |-> used_spans ]
    ELSE LET mapping == extract_mapping_from_captures(all[k].pattern, all[k].m.caps)
         IN  IF mapping # {}
             THEN ExtractFrom_overlapping(all, k + 1, Append(mappings, Unwrap(mapping)),
                                          Append(used_spans, << all[k].m.start, all[k].m.end >>))
             ELSE ExtractFrom_overlapping(all, k + 1, mappings, used_spans)

\* the loop body of extract_mappings over the matches from k on; the two
\* vectors mappings and used_spans as they are at the end
RECURSIVE ExtractFrom(_, _, _, _)
ExtractFrom(all, k, mappings, used_spans) ==
    IF k > Len(all) THEN [ mappings |-> mappings, used_spans |-> used_spans ]
    ELSE LET start == all[k].m.start
             end == all[k].m.end
             overlaps == \E n \in 1..Len(used_spans) :
                             start < used_spans[n][2] /\ end > used_spans[n][1]
             mapping == extract_mapping_from_captures(all[k].pattern, all[k].m.caps)
         IN  IF ~overlaps /\ mapping # {}
             THEN ExtractFrom(all, k + 1, Append(mappings, Unwrap(mapping)),
                              Append(used_spans, <<start, end>>))
             ELSE ExtractFrom(all, k + 1, mappings, used_spans)

\* main.rs NaturalLanguageParser::extract_mappings
extract_mappings(text) == ExtractFrom(AllCaptures(text, 1), 1, <<>>, <<>>).mappings

LearnedMapping(replacement, confidence, t, source, scope) ==
    [ replacement |-> replacement, confidence |-> confidence, learned_at |-> t,
      learned_from |-> source, usage_count |-> {1},
      context |-> IF scope.kind # "global" THEN {scope} ELSE {} ]

\* add_learned_mapping that keeps an entry the scope already has
add_learned_mapping_keep(config, original, replacement, scope, confidence, source, t) ==
    LET lm == LearnedMapping(replacement, confidence, t, source, scope)
        keep(m) == IF original \in DOMAIN m THEN m ELSE Put(m, original, lm)
    IN  [config EXCEPT
            !.learned.global = IF scope.kind = "global" THEN keep(@) ELSE @,
            !.learned.project = IF scope.kind = "project" THEN keep(@) ELSE @,
            !.present = @ \cup LearnedSections,
            !.learning_meta =
                { [m EXCEPT !.total_mappings_learned = @ + 1,
                            !.session_mappings = @ + 1,
                            !.last_updated = t] : m \in @ }]

\* add_learned_mapping that also takes the original off never_suggest
add_learned_mapping_lifting(config, original, replacement, scope, confidence, source, t) ==
    LET lm == LearnedMapping(replacement, confidence, t, source, scope)
        learned == config.learned
        learned2 ==
            IF scope.kind = "project"
            THEN [learned EXCEPT !.project = Put(@, original, lm)]
            ELSE IF scope.kind = "context"
            THEN [learned EXCEPT !.context =
                    Put(@, scope.name,
                        Put(IF scope.name \in DOMAIN @ THEN @[scope.name] ELSE EmptyMap,
                            original, lm))]
            ELSE [learned EXCEPT !.global = Put(@, original, lm)]
    IN  [config EXCEPT
            !.learned = learned2,
            !.never_suggest = Remove(@, original),
            !.present = @ \cup (IF "learned" \in @ THEN {} ELSE LearnedSections)
                          \cup { IF scope.kind = "project" THEN "learned.project"
                                  ELSE IF scope.kind = "context" THEN "learned.context"
                                  ELSE "learned.global" },
            !.learning_meta =
                { [m EXCEPT !.total_mappings_learned = @ + 1,
                            !.session_mappings = @ + 1,
                            !.last_updated = t] : m \in @ }]

\* main.rs add_learned_mapping
add_learned_mapping(config, original, replacement, scope, confidence, source, t) ==
    LET lm == LearnedMapping(replacement, confidence, t, source, scope)
        learned == config.learned
        learned2 ==
            IF scope.kind = "project"
            THEN [learned EXCEPT !.project = Put(@, original, lm)]
            ELSE IF scope.kind = "context"
            THEN [learned EXCEPT !.context =
                    Put(@, scope.name,
                        Put(IF scope.name \in DOMAIN @ THEN @[scope.name] ELSE EmptyMap,
                            original, lm))]
            ELSE [learned EXCEPT !.global = Put(@, original, lm)]
    IN  [config EXCEPT
            !.learned = learned2,
            !.present = @ \cup (IF "learned" \in @ THEN {} ELSE LearnedSections)
                          \cup { IF scope.kind = "project" THEN "learned.project"
                                  ELSE IF scope.kind = "context" THEN "learned.context"
                                  ELSE "learned.global" },
            !.learning_meta =
                { [m EXCEPT !.total_mappings_learned = @ + 1,
                            !.session_mappings = @ + 1,
                            !.last_updated = t] : m \in @ }]

RECURSIVE AddAll(_, _, _, _)
AddAll(config, mappings, k, t) ==
    IF k > Len(mappings) THEN config
    ELSE AddAll(add_learned_mapping(config, mappings[k].original, mappings[k].replacement,
                                    mappings[k].scope, mappings[k].confidence,
                                    mappings[k].source, t),
                mappings, k + 1, t)

\* main.rs handle_user_prompt_submit: the policy is loaded and saved only when
\* the prompt yields a mapping; nothing is ever printed
handle_user_prompt_submit(hook_input, f, t) ==
    LET mappings == extract_mappings(Unwrap(hook_input.prompt))
    IN  IF mappings = <<>> THEN {Silent(f)}
        ELSE IF load_config_is_err(f) THEN {Failed(f)}
        ELSE {Silent(save_config_atomic(AddAll(load_config(f, t), mappings, 1, t)))}

----------------------------------------------------------------------------
(* Execution analyzer and housekeeping *)

MAX_EXECUTION_HISTORY == 1000
MAINTENANCE_INTERVAL_DAYS == 1
MIN_EXECUTIONS_FOR_MAINTENANCE == 10
MIN_ATTEMPTS == 5

\* confidence steps in 1/700ths: +0.05 on success, -0.10 on failure
SuccessAdjustment == 35
FailureAdjustment == 70

\* apply_confidence_decay in 1/700ths: 0.02 * days / 7 is 2 per day, at most
\* 0.3, and the result at least 0.1
DecayPerDay == 2
MaxDecay == 210
MinDecayedConfidence == 70

\* the separator of a suggestion_stats key
Arrow == "->"

\* format!("{original_command}->{replacement_command}")
StatsKey(original_command, replacement_command) ==
    original_command \o <<Arrow>> \o replacement_command

\* str::split_once: the parts before and after the first separator (an Option)
split_once(key, sep) ==
    IF \E k \in 1..Len(key) : key[k] = sep
    THEN LET k == CHOOSE i \in 1..Len(key) :
                     key[i] = sep /\ \A j \in 1..(i - 1) : key[j] # sep
         IN  { << SubSeq(key, 1, k - 1), SubSeq(key, k + 1, Len(key)) >> }
    ELSE {}

\* a success ratio as the fraction it is computed from
Ratio(num, den) == [ num |-> num, den |-> den ]

\* ratio < 0.3
BelowFailureThreshold(r) == r.num * 10 < 3 * r.den

\* main.rs reconstruct_original_command (an Option)
reconstruct_original_command(executed_command, original_pattern, replacement) ==
    IF Contains(executed_command, replacement)
    THEN { StrReplace(executed_command, replacement, original_pattern) }
    ELSE {}

\* main.rs find_command_correlation: any entry whose replacement occurs in the
\* executed command
find_command_correlation(mappings, executed_command) ==
    UNION { { << o, mappings[p].replacement >>
              : o \in reconstruct_original_command(executed_command, p,
                                                   mappings[p].replacement) }
            : p \in { q \in DOMAIN mappings :
                        Contains(executed_command, mappings[q].replacement) } }

\* main.rs find_command_correlation_static
find_command_correlation_static(commands, executed_command) ==
    UNION { { << o, commands[p] >>
              : o \in reconstruct_original_command(executed_command, p, commands[p]) }
            : p \in { q \in DOMAIN commands : Contains(executed_command, commands[q]) } }

SourceTag(kind, name) == [ kind |-> kind, name |-> name ]

Correlation(c, source) ==
    [ original_cmd |-> c[1], source |-> source, replacement |-> c[2] ]

\* main.rs determine_suggestion_correlation: project, global, context, static;
\* the set of results the call can return (empty: None)
determine_suggestion_correlation(config, executed_command) ==
    LET project == find_command_correlation(config.learned.project, executed_command)
        global  == find_command_correlation(config.learned.global, executed_command)
        context == UNION { { Correlation(c, SourceTag("context", n))
                             : c \in find_command_correlation(config.learned.context[n],
                                                              executed_command) }
                           : n \in DOMAIN config.learned.context }
        static  == find_command_correlation_static(config.commands, executed_command)
    IN  IF project # {} THEN { Correlation(c, SourceTag("project_learned", <<>>)) : c \in project }
        ELSE IF global # {} THEN { Correlation(c, SourceTag("global_learned", <<>>)) : c \in global }
        ELSE IF context # {} THEN context
        ELSE { Correlation(c, SourceTag("static", <<>>)) : c \in static }

\* a statistics update that counts the success but not the acceptance
update_suggestion_stats_unaccepted(history, original_command, replacement_command, success) ==
    LET stats_key == StatsKey(original_command, replacement_command)
        one == IF success THEN 1 ELSE 0
        stats == IF stats_key \in DOMAIN history.suggestion_stats
                 THEN history.suggestion_stats[stats_key]
                 ELSE [ times_suggested |-> 0, times_accepted |-> 1,
                        times_successful |-> one, times_rejected |-> 0,
                        effectiveness_score |-> Ratio(one, 1) ]
        successful == stats.times_successful + one
    IN  [history EXCEPT !.suggestion_stats =
            Put(@, stats_key,
                [stats EXCEPT !.times_successful = successful,
                              !.effectiveness_score =
                                  Ratio(successful, stats.times_accepted)])]

\* main.rs update_suggestion_stats: a new entry starts at one acceptance and
\* is then counted again
update_suggestion_stats(history, original_command, replacement_command, success) ==
    LET stats_key == StatsKey(original_command, replacement_command)
        one == IF success THEN 1 ELSE 0
        stats == IF stats_key \in DOMAIN history.suggestion_stats
                 THEN history.suggestion_stats[stats_key]
                 ELSE [ times_suggested |-> 0, times_accepted |-> 1,
                        times_successful |-> one, times_rejected |-> 0,
                        effectiveness_score |-> Ratio(one, 1) ]
        accepted == stats.times_accepted + 1
        successful == stats.times_successful + one
    IN  [history EXCEPT !.suggestion_stats =
            Put(@, stats_key,
                [stats EXCEPT !.times_accepted = accepted,
                              !.times_successful = successful,
                              !.effectiveness_score =
                                  IF accepted > 0 THEN Ratio(successful, accepted)
                                  ELSE Ratio(0, 1)])]

\* main.rs update_mapping_correlation
update_mapping_correlation(history, original_pattern, replacement_command, success) ==
    LET one == IF success THEN 1 ELSE 0
        correlation == IF original_pattern \in DOMAIN history.mapping_correlations
                       THEN history.mapping_correlations[original_pattern]
                       ELSE [ original_pattern |-> original_pattern,
                              replacement_command |-> replacement_command,
                              success_rate |-> Ratio(one, 1),
                              total_executions |-> 1,
                              successful_executions |-> one ]
        total == correlation.total_executions + 1
        successful == correlation.successful_executions + one
    IN  [history EXCEPT !.mapping_correlations =
            Put(@, original_pattern,
                [correlation EXCEPT !.total_executions = total,
                                    !.successful_executions = successful,
                                    !.success_rate = Ratio(successful, total)])]

\* f32::clamp(0.0, 1.0)
Clamp01(c) == IF c < 0 THEN 0 ELSE IF c > FullConfidence THEN FullConfidence ELSE c

AdjustIn(mappings, original_command, success) ==
    IF original_command \in DOMAIN mappings
    THEN [mappings EXCEPT ![original_command].confidence =
            Clamp01(IF success THEN @ + SuccessAdjustment ELSE @ - FailureAdjustment)]
    ELSE mappings

\* main.rs adjust_mapping_confidence: the entry is looked up under the
\* reconstructed original command
adjust_mapping_confidence(config, original_command, replacement_command, source, success) ==
    IF source.kind = "global_learned"
    THEN [config EXCEPT !.learned.global = AdjustIn(@, original_command, success)]
    ELSE IF source.kind = "project_learned"
    THEN [config EXCEPT !.learned.project = AdjustIn(@, original_command, success)]
    ELSE IF source.kind = "context" /\ source.name \in DOMAIN config.learned.context
    THEN [config EXCEPT !.learned.context[source.name] =
            AdjustIn(@, original_command, success)]
    ELSE config

\* a gate that looks at the number of executions only
should_run_maintenance_any_time(config, t) ==
    Len(config.execution_history.command_executions) >= MIN_EXECUTIONS_FOR_MAINTENANCE

\* main.rs should_run_maintenance: time in whole days
should_run_maintenance(config, t) ==
    LET last_updated == IF config.learning_meta = {} THEN t
                        ELSE Unwrap(config.learning_meta).last_updated
    IN  /\ ~((t - last_updated) < MAINTENANCE_INTERVAL_DAYS)
        /\ Len(config.execution_history.command_executions)
               >= MIN_EXECUTIONS_FOR_MAINTENANCE

Min(a, b) == IF a < b THEN a ELSE b
Max(a, b) == IF a > b THEN a ELSE b

Decayed(mapping, t) ==
    [mapping EXCEPT !.confidence =
        Max(@ - Min(DecayPerDay * (t - mapping.learned_at), MaxDecay),
            MinDecayedConfidence)]

DecayIn(mappings, t) == [ p \in DOMAIN mappings |-> Decayed(mappings[p], t) ]

\* a decay of the global tier only
apply_confidence_decay_global_only(config, t) ==
    [config EXCEPT !.learned.global = DecayIn(@, t)]

\* main.rs apply_confidence_decay
apply_confidence_decay(config, t) ==
    [config EXCEPT
        !.learned.global = DecayIn(@, t),
        !.learned.project = DecayIn(@, t),
        !.learned.context = [ n \in DOMAIN @ |-> DecayIn(@[n], t) ]]

\* main.rs remove_from_learned_mappings
remove_from_learned_mappings(config, original_command) ==
    [config EXCEPT
        !.learned.global = Remove(@, original_command),
        !.learned.project = Remove(@, original_command),
        !.learned.context = [ n \in DOMAIN @ |-> Remove(@[n], original_command) ]]

RECURSIVE RemoveAll(_, _)
RemoveAll(config, originals) ==
    IF originals = {} THEN config
    ELSE LET o == CHOOSE x \in originals : TRUE
         IN  RemoveAll(remove_from_learned_mappings(config, o), originals \ {o})

\* candidates that leave out an original the global tier holds at the
\* threshold or above
never_suggest_candidates_unlearned(config) ==
    LET stats == config.execution_history.suggestion_stats
    IN  { c \in UNION { split_once(k, Arrow)
                        : k \in { key \in DOMAIN stats :
                                    /\ stats[key].times_accepted >= MIN_ATTEMPTS
                                    /\ BelowFailureThreshold(stats[key].effectiveness_score) } } :
            ~ ( /\ c[1] \in DOMAIN config.learned.global
                /\ config.learned.global[c[1]].confidence >= DEFAULT_CONFIDENCE_THRESHOLD ) }

\* the (original, replacement) pairs evaluate_and_update_never_suggest collects
never_suggest_candidates(config) ==
    LET stats == config.execution_history.suggestion_stats
    IN  UNION { split_once(k, Arrow)
                : k \in { key \in DOMAIN stats :
                            /\ stats[key].times_accepted >= MIN_ATTEMPTS
                            /\ BelowFailureThreshold(stats[key].effectiveness_score) } }

\* evaluate_and_update_never_suggest that leaves the learned tiers alone
evaluate_and_update_never_suggest_keep_learned(config) ==
    LET cands == never_suggest_candidates(config)
        originals == { c[1] : c \in cands }
    IN  { [config EXCEPT
              !.never_suggest =
                  [ o \in DOMAIN @ \cup originals |->
                      IF o \in originals THEN pick[o] ELSE @[o] ],
              !.present = @ \cup (IF originals = {} THEN {} ELSE { "never_suggest" })]
          : pick \in { g \in [originals -> { c[2] : c \in cands }] :
                         \A o \in originals : << o, g[o] >> \in cands } }

\* main.rs evaluate_and_update_never_suggest: candidates are inserted in the
\* iteration order of the statistics map, so of two candidates with one
\* original either replacement can stay
evaluate_and_update_never_suggest(config) ==
    LET cands == never_suggest_candidates(config)
        originals == { c[1] : c \in cands }
    IN  { RemoveAll([config EXCEPT
                        !.never_suggest =
                            [ o \in DOMAIN @ \cup originals |->
                                IF o \in originals THEN pick[o] ELSE @[o] ],
                        !.present = @ \cup (IF originals = {} THEN {}
                                            ELSE { "never_suggest" })],
                    originals)
          : pick \in { g \in [originals -> { c[2] : c \in cands }] :
                         \A o \in originals : << o, g[o] >> \in cands } }

\* main.rs perform_periodic_maintenance
perform_periodic_maintenance(config, t) ==
    { [c EXCEPT !.learning_meta = { [m EXCEPT !.last_updated = t] : m \in @ }]
      : c \in evaluate_and_update_never_suggest(apply_confidence_decay(config, t)) }

\* an execution record that starts out as suggested
CommandExecution_suggested(command, exit_code) ==
    [ command |-> command, was_suggested |-> TRUE, original_command |-> {},
      exit_code |-> {exit_code}, success |-> (exit_code = 0),
      suggestion_source |-> {} ]

\* main.rs handle_post_tool_use: the CommandExecution it builds
CommandExecution(command, exit_code) ==
    [ command |-> command, was_suggested |-> FALSE, original_command |-> {},
      exit_code |-> {exit_code}, success |-> (exit_code = 0),
      suggestion_source |-> {} ]

\* a push whose drain keeps the oldest records
PushExecution_oldest_kept(executions, execution) ==
    LET pushed == Append(executions, execution)
    IN  SubSeq(pushed, 1, Min(Len(pushed), MAX_EXECUTION_HISTORY))

\* Vec::push, then the drain that keeps the newest MAX_EXECUTION_HISTORY records
PushExecution(executions, execution) ==
    LET pushed == Append(executions, execution)
    IN  IF Len(pushed) > MAX_EXECUTION_HISTORY
        THEN SubSeq(pushed, Len(pushed) - MAX_EXECUTION_HISTORY + 1, Len(pushed))
        ELSE pushed

\* main.rs analyze_and_update_execution for one outcome info of
\* determine_suggestion_correlation (a set with at most one element); the
\* configurations the call can leave, each with whether maintenance ran
analyze_with(config, execution, info, t) ==
    LET rec == IF info = {} THEN execution
               ELSE [execution EXCEPT !.was_suggested = TRUE,
                                      !.original_command = {Unwrap(info).original_cmd},
                                      !.suggestion_source = {Unwrap(info).source}]
        h1 == IF info = {} THEN config.execution_history
              ELSE update_mapping_correlation(
                       update_suggestion_stats(config.execution_history,
                           Unwrap(info).original_cmd, Unwrap(info).replacement,
                           execution.success),
                       Unwrap(info).original_cmd, Unwrap(info).replacement,
                       execution.success)
        present == config.present
                   \cup (IF "execution_history" \in config.present THEN {}
                         ELSE HistorySections)
                   \cup (IF info = {} THEN {}
                         ELSE { "execution_history.suggestion_stats",
                                "execution_history.mapping_correlations" })
        h2 == IF "execution_history.command_executions" \in present
              THEN [h1 EXCEPT !.command_executions = PushExecution(@, rec)]
              ELSE h1
        c1 == [config EXCEPT !.execution_history = h2, !.present = present]
        c2 == IF info = {} THEN c1
              ELSE adjust_mapping_confidence(c1, Unwrap(info).original_cmd,
                       Unwrap(info).replacement, Unwrap(info).source, execution.success)
    IN  IF should_run_maintenance(c2, t)
        THEN { [ config |-> c, maintenance |-> TRUE ]
               : c \in perform_periodic_maintenance(c2, t) }
        ELSE { [ config |-> c2, maintenance |-> FALSE ] }

analyze_and_update_execution(config, execution, t) ==
    LET infos == determine_suggestion_correlation(config, execution.command)
    IN  IF infos = {} THEN { a @@ [ info |-> {} ]
                             : a \in analyze_with(config, execution, {}, t) }
        ELSE UNION { { a @@ [ info |-> {i} ]
                       : a \in analyze_with(config, execution, {i}, t) }
                     : i \in infos }

\* main.rs handle_post_tool_use
handle_post_tool_use(hook_input, f, t) ==
    IF hook_input.tool_name # "Bash" THEN {Silent(f)}
    ELSE IF load_config_is_err(f) THEN {Failed(f)}
    ELSE LET config == load_config(f, t)
             actual_exit_code == IF hook_input.exit_code = {} THEN 0
                                 ELSE Unwrap(hook_input.exit_code)
             execution == CommandExecution(Unwrap(hook_input.command), actual_exit_code)
         IN  { Outcome(save_config_atomic(a.config), <<>>, 0, {}, a.info, a.maintenance)
               : a \in analyze_and_update_execution(config, execution, t) }

----------------------------------------------------------------------------
(* Event router *)

\* a hook event as read from standard input; tool_input.command, prompt and
\* tool_response.exit_code are Options
\* main.rs GenericHookInput: the fields every event must carry besides
\* hook_event_name
GenericFields == { "session_id", "transcript_path", "cwd" }

HookInput(hook_event_name, tool_name, command, prompt, exit_code) ==
    [ hook_event_name |-> hook_event_name, tool_name |-> tool_name,
      command |-> command, prompt |-> prompt, exit_code |-> exit_code,
      common |-> GenericFields ]

\* eprintln!("Warning: Unknown hook event type: {}", ..)
UnknownEventWarning(hook_event_name) ==
    [ text |-> "Warning: Unknown hook event type", hook_event_name |-> hook_event_name ]

\* a router for which an unknown event is an error
run_as_hook_strict(hook_input, f, replace_mode, t) ==
    IF hook_input.hook_event_name = "PreToolUse"
    THEN handle_pre_tool_use(hook_input, f, replace_mode, t)
    ELSE IF hook_input.hook_event_name = "UserPromptSubmit"
    THEN handle_user_prompt_submit(hook_input, f, t)
    ELSE IF hook_input.hook_event_name = "PostToolUse"
    THEN handle_post_tool_use(hook_input, f, t)
    ELSE {Failed(f)}

\* main.rs run_as_hook: an event that does not deserialize, as
\* GenericHookInput or in its typed form (no tool_input.command, no prompt),
\* is an Err; an unknown event is answered with a warning on stderr
run_as_hook(hook_input, f, replace_mode, t) ==
    IF ~ (GenericFields \subseteq hook_input.common) THEN {Failed(f)}
    ELSE IF hook_input.hook_event_name = "PreToolUse"
    THEN IF hook_input.command = {} THEN {Failed(f)}
         ELSE handle_pre_tool_use(hook_input, f, replace_mode, t)
    ELSE IF hook_input.hook_event_name = "UserPromptSubmit"
    THEN IF hook_input.prompt = {} THEN {Failed(f)}
         ELSE handle_user_prompt_submit(hook_input, f, t)
    ELSE IF hook_input.hook_event_name = "PostToolUse"
    THEN IF hook_input.command = {} THEN {Failed(f)}
         ELSE handle_post_tool_use(hook_input, f, t)
    ELSE { [Silent(f) EXCEPT !.stderr = << UnknownEventWarning(hook_input.hook_event_name) >>] }

----------------------------------------------------------------------------
(* Inputs *)

C_cat_f == T_cat \o <<" ", "f">>
C_bat_f == T_bat \o <<" ", "f">>

T_less == <<"l","e","s","s">>
T_more == <<"m","o","r","e">>
T_view == <<"v","i","e","w">>
T_react == <<"r","e","a","c","t">>

\* commands of pre-tool events
PreCommands == { T_cat, C_cat_f, T_ls }

\* commands of post-tool events
PostCommands == { T_bat, C_bat_f, T_ls }

\* tool names: the shell tool and one other tool
Tools == { "Bash", "Write" }

P_direct  == << K_use, T_bat, K_instead, K_of, T_cat >>
P_project == << K_for, K_this, K_project, K_use, T_less, K_instead, K_of, T_cat >>
P_simple  == << K_lets, K_use, T_bat >>

Prompts == { P_direct, P_project, P_simple }

ExitCodes == { 0, 1 }

\* bounds of the exploration
MaxDay == 1
MaxExecutions == 10
MaxLearned == 2
MaxCmdLen == 4
MaxRecorded == 1
MaxAnalyzed == 11
MaxRing == 3
MaxMaintained == 11
MaxRecoverDay == 3

----------------------------------------------------------------------------
(* Hook processes *)

\* the host may run two hook processes at a time
Procs == { 1, 2 }

\* a process that has not been started
IdleProc ==
    [ pc |-> "idle", input |-> HookInput("", "", {}, {}, {}), loaded_from |-> {},
      config |-> {}, outcome |-> "none", exit_status |-> {}, renamed |-> 0 ]

NoProcs == [ p \in Procs |-> IdleProc ]

NoTemps == EmptyMap

----------------------------------------------------------------------------
(* One hook process per event *)

NoInput == HookInput("", "", {}, {}, {})

\* the last event handled, with what its handler computed
Ev(hook_input, replace_mode, o) ==
    [ input |-> hook_input, replace_mode |-> replace_mode,
      resolved |-> o.resolved, correlated |-> o.correlated,
      maintenance |-> o.maintenance, stderr |-> o.stderr,
      prev_prompt |-> IF ev.input.hook_event_name = "UserPromptSubmit"
                      THEN ev.input.prompt ELSE {} ]

\* a run of the binary in hook mode on one event
Run(hook_input, replace_mode) ==
    \E o \in run_as_hook(hook_input, file, replace_mode, now) :
        /\ file' = o.file
        /\ stdout' = o.stdout
        /\ exit_status' = o.exit_status
        /\ ev' = Ev(hook_input, replace_mode, o)
        /\ UNCHANGED << procs, temps >>

\* the host always sends tool_input.command for the shell tool; another
\* tool's input has its own fields and may or may not carry a command
PreToolUse ==
    /\ \E tool \in Tools, replace_mode \in BOOLEAN :
           \E command \in { {c} : c \in PreCommands }
                             \cup (IF tool = "Bash" THEN {} ELSE {{}}) :
               Run(HookInput("PreToolUse", tool, command, {}, {}), replace_mode)
    /\ UNCHANGED now

UserPromptSubmit ==
    /\ \A m \in load_config(file, now).learning_meta :
           m.total_mappings_learned < MaxLearned
    /\ \E prompt \in Prompts :
           Run(HookInput("UserPromptSubmit", "", {}, {prompt}, {}), FALSE)
    /\ UNCHANGED now

PostToolUse ==
    /\ Len(load_config(file, now).execution_history.command_executions) < MaxExecutions
    /\ \E command \in PostCommands, exit_code \in {{}} \cup { {x} : x \in ExitCodes } :
           Run(HookInput("PostToolUse", "Bash", {command}, {}, exit_code), FALSE)
    /\ UNCHANGED now

\* a day passes
Tick ==
    /\ now < MaxDay
    /\ now' = now + 1
    /\ UNCHANGED << file, stdout, exit_status, ev, procs, temps >>

IdleEv ==
    [ input |-> NoInput, replace_mode |-> FALSE, resolved |-> {}, correlated |-> {},
      maintenance |-> FALSE, stderr |-> <<>>, prev_prompt |-> {} ]

----------------------------------------------------------------------------
(* The resolver on hand-written policies *)

\* a policy file with every table written out
Policy(commands, global, project, context, never_suggest) ==
    Document([ commands |-> commands,
               learned |-> [ global |-> global, project |-> project,
                             context |-> context ],
               learning_meta |-> {NewLearningMetadata(0, CURRENT_VERSION)},
               never_suggest |-> never_suggest,
               execution_history |-> EmptyHistory ],
             Sections \cup { "commands" }, {}, "none")

\* a tier's entry for cat: none, or one at a confidence around the threshold
TierConfidences ==
    { {}, {DEFAULT_CONFIDENCE_THRESHOLD - 1}, {DEFAULT_CONFIDENCE_THRESHOLD},
      {DEFAULT_CONFIDENCE_THRESHOLD + 140} }

Entry(replacement, conf, scope) ==
    IF conf = {} THEN EmptyMap
    ELSE Put(EmptyMap, T_cat,
             LearnedMapping(replacement, Unwrap(conf), 0, "natural_language", scope))

ResolvePolicies ==
    { Policy(IF s THEN Put(EmptyMap, T_cat, T_view) ELSE EmptyMap,
             Entry(T_bat, g, Scope("global", <<>>)),
             Entry(T_less, p, Scope("project", <<>>)),
             IF c = {} THEN EmptyMap
             ELSE Put(EmptyMap, T_react, Entry(T_more, c, Scope("context", T_react))),
             IF n THEN Put(EmptyMap, T_cat, T_bat) ELSE EmptyMap)
      : s \in BOOLEAN, n \in BOOLEAN,
        g \in TierConfidences, p \in TierConfidences, c \in TierConfidences }

InitResolve ==
    /\ file \in { {q} : q \in ResolvePolicies }
    /\ now = 0
    /\ stdout = <<>>
    /\ exit_status = 0
    /\ ev = IdleEv
    /\ procs = NoProcs
    /\ temps = NoTemps

NextResolve == PreToolUse

SpecResolve == InitResolve /\ [][NextResolve]_vars

----------------------------------------------------------------------------
(* The whole pipeline *)

RECURSIVE Replay(_, _)
\* the policy files a sequence of dated events can leave
Replay(fs, inputs) ==
    IF inputs = <<>> THEN fs
    ELSE Replay(UNION { { o.file : o \in run_as_hook(inputs[1].event, f, FALSE,
                                                      inputs[1].day) } : f \in fs },
                Tail(inputs))

\* a post-tool event on day 0
Ran(command, exit_code) ==
    [ event |-> HookInput("PostToolUse", "Bash", {command}, {}, {exit_code}), day |-> 0 ]

Times(n, x) == [ k \in 1..n |-> x ]

\* the prompt "use bat instead of cat" on day 0
Learnt == [ event |-> HookInput("UserPromptSubmit", "", {}, {P_direct}, {}), day |-> 0 ]

\* nine executions without any mapping
QuietHistory == Times(9, Ran(T_ls, 0))

\* cat -> bat learned, "bat f" failed four times among nine executions
FailingWithArgument == <<Learnt>> \o Times(4, Ran(C_bat_f, 1)) \o Times(5, Ran(T_ls, 0))

\* cat -> bat learned, "bat" failed eight times among nine executions
FailingBare == <<Learnt>> \o Times(8, Ran(T_bat, 1)) \o Times(1, Ran(T_ls, 0))

Init ==
    /\ file \in UNION { Replay({{}}, h)
                        : h \in { QuietHistory, FailingWithArgument, FailingBare } }
    /\ now = 0
    /\ stdout = <<>>
    /\ exit_status = 0
    /\ ev = IdleEv
    /\ procs = NoProcs
    /\ temps = NoTemps

Next == PreToolUse \/ UserPromptSubmit \/ PostToolUse \/ Tick

Spec == Init /\ [][Next]_vars

----------------------------------------------------------------------------
(* Learning and suggesting *)

\* FailingBare, then a ninth failure of "bat" on day 1: housekeeping has moved
\* cat -> bat to never_suggest
Rejected == FailingBare \o << [Ran(T_bat, 1) EXCEPT !.day = 1] >>

\* no policy file yet on day 0, or the policy Rejected leaves on day 1
InitLearn ==
    /\ \/ file = {} /\ now = 0
       \/ file \in Replay({{}}, Rejected) /\ now = 1
    /\ stdout = <<>>
    /\ exit_status = 0
    /\ ev = IdleEv
    /\ procs = NoProcs
    /\ temps = NoTemps

NextLearn == UserPromptSubmit \/ PreToolUse \/ Tick

SpecLearn == InitLearn /\ [][NextLearn]_vars

----------------------------------------------------------------------------
(* The policy store under hook events: policy files as a user may have      *)
(* left them                                                                *)

\* the text of a file with [commands] and nothing else
Bare(commands) ==
    [ commands |-> commands, learned |-> EmptyLearned, learning_meta |-> {},
      never_suggest |-> EmptyMap, execution_history |-> EmptyHistory ]

\* a legacy file: only [commands]
LegacyFile == Document(Bare(Put(EmptyMap, T_cat, T_view)), { "commands" }, {}, "none")

\* every table of Config, and an [aliases] table Config does not have
ExtendedFile ==
    [ Policy(Put(EmptyMap, T_cat, T_view), EmptyMap, EmptyMap, EmptyMap,
             Put(EmptyMap, T_ls, T_eza))
      EXCEPT !.unknown = { "aliases" } ]

\* [commands], [learning_meta] of version 0.2.0 and [learned.project.cat]
PartialFile ==
    Document([ Bare(EmptyMap) EXCEPT
                 !.learned.project =
                     Put(EmptyMap, T_cat,
                         LearnedMapping(T_less, 644, 0, "natural_language",
                                        Scope("project", <<>>))),
                 !.learning_meta = { NewLearningMetadata(0, "0.2.0") } ],
             { "commands", "learned", "learned.project" }, {}, "none")

\* [commands] and a learned entry that lacks its confidence
SchemaDefectFile == [ PartialFile EXCEPT !.commands = Put(EmptyMap, T_cat, T_view),
                                         !.defect = "schema" ]

\* not TOML
SyntaxDefectFile == [ LegacyFile EXCEPT !.defect = "syntax" ]

\* learned tables but no [commands]
NoCommandsFile == [ PartialFile EXCEPT !.present = @ \ { "commands" } ]

StoreFiles ==
    { {}, {LegacyFile}, {ExtendedFile}, {PartialFile}, {SchemaDefectFile},
      {SyntaxDefectFile}, {NoCommandsFile} }

InitStore ==
    /\ file \in StoreFiles
    /\ now = 0
    /\ stdout = <<>>
    /\ exit_status = 0
    /\ ev = IdleEv
    /\ procs = NoProcs
    /\ temps = NoTemps

\* a pre-tool event for "cat", or one of another tool without a command
Consult ==
    /\ \E tool \in Tools :
           \E command \in { {T_cat} } \cup (IF tool = "Bash" THEN {} ELSE {{}}) :
               Run(HookInput("PreToolUse", tool, command, {}, {}), FALSE)
    /\ UNCHANGED now

\* a user-prompt event that states a preference
Learn ==
    /\ \A m \in load_config(file, now).learning_meta :
           m.total_mappings_learned < MaxLearned
    /\ \E prompt \in { P_direct, P_project } :
           Run(HookInput("UserPromptSubmit", "", {}, {prompt}, {}), FALSE)
    /\ UNCHANGED now

\* a post-tool event for "bat" while the file records fewer than MaxRecorded
\* executions
RecordExecution ==
    /\ Len(load_config(file, now).execution_history.command_executions) < MaxRecorded
    /\ \E exit_code \in { {}, {1} } :
           Run(HookInput("PostToolUse", "Bash", {T_bat}, {}, exit_code), FALSE)
    /\ UNCHANGED now

\* names of events the program does not know
UnknownNames == { "Notification", "Stop", "pretooluse" }

\* an event of a kind the program does not know, with all the fields every
\* event carries or with session_id alone
UnknownEvent ==
    /\ \E name \in UnknownNames, common \in { GenericFields, { "session_id" } } :
           Run([HookInput(name, "", {}, {}, {}) EXCEPT !.common = common], FALSE)
    /\ UNCHANGED now

NextStore == Consult \/ Learn \/ RecordExecution \/ UnknownEvent

SpecStore == InitStore /\ [][NextStore]_vars

----------------------------------------------------------------------------
(* Concurrent hook processes that rewrite the policy, one file operation    *)
(* per step                                                                 *)

\* every process uses one temporary file name
TempName_shared(p) == 0

\* tempfile NamedTempFile::new_in: a fresh random name for every process
TempName(p) == p

\* the text of an empty file
EmptyText == Document(Bare(EmptyMap), {}, {}, "none")

\* a text of which only a part has been written: not a TOML document
Truncated(content) == [ content EXCEPT !.defect = "syntax" ]

\* fs::write straight to the policy file
fs_write_in_place(f, ts, name, content, complete) ==
    [ file |-> { IF complete THEN content ELSE Truncated(content) }, temps |-> ts ]

\* save_config_atomic, fs::write(temp_file.path(), ..): the bytes go to the
\* temporary file; `complete` is whether all of them have been written
fs_write(f, ts, name, content, complete) ==
    [ file |-> f,
      temps |-> Put(ts, name, IF complete THEN content ELSE Truncated(content)) ]

\* the events that rewrite the policy: a prompt that states a preference and
\* a failed execution of "bat"
RewritingInputs ==
    { HookInput("UserPromptSubmit", "", {}, {P_direct}, {}),
      HookInput("PostToolUse", "Bash", {T_bat}, {}, {1}) }

\* the policies the handler of an event can have in memory when it calls
\* save_config_atomic
Computed(input, f, t) ==
    IF input.hook_event_name = "UserPromptSubmit"
    THEN { AddAll(load_config(f, t), extract_mappings(Unwrap(input.prompt)), 1, t) }
    ELSE { a.config
           : a \in analyze_and_update_execution(
                       load_config(f, t),
                       CommandExecution(Unwrap(input.command), Unwrap(input.exit_code)),
                       t) }

\* the host starts a hook process: run_as_hook has read and parsed stdin
Start(p) ==
    /\ procs[p].pc = "idle"
    /\ \E input \in RewritingInputs :
           procs' = [procs EXCEPT ![p].pc = "started", ![p].input = input]
    /\ UNCHANGED << file, now, stdout, exit_status, ev, temps >>

\* load_config and the handler's work in memory; an Err of load_config ends
\* the process with status 1
Load(p) ==
    /\ procs[p].pc = "started"
    /\ IF load_config_is_err(file)
       THEN procs' = [procs EXCEPT ![p].pc = "exited", ![p].outcome = "load_failed",
                                   ![p].exit_status = {1}]
       ELSE \E config \in Computed(procs[p].input, file, now) :
                procs' = [procs EXCEPT ![p].pc = "loaded", ![p].loaded_from = {file},
                                       ![p].config = {config}]
    /\ UNCHANGED << file, now, stdout, exit_status, ev, temps >>

\* NamedTempFile::new_in: an empty file under a new name
CreateTemp(p) ==
    /\ procs[p].pc = "loaded"
    /\ procs' = [procs EXCEPT ![p].pc = "created"]
    /\ temps' = Put(temps, TempName(p), EmptyText)
    /\ UNCHANGED << file, now, stdout, exit_status, ev >>

\* fs::write has written a part of the text
BeginWrite(p) ==
    /\ procs[p].pc = "created"
    /\ LET w == fs_write(file, temps, TempName(p),
                         to_string_pretty(Unwrap(procs[p].config)), FALSE)
       IN  file' = w.file /\ temps' = w.temps
    /\ procs' = [procs EXCEPT ![p].pc = "writing"]
    /\ UNCHANGED << now, stdout, exit_status, ev >>

\* fs::write has written all of the text
EndWrite(p) ==
    /\ procs[p].pc = "writing"
    /\ LET w == fs_write(file, temps, TempName(p),
                         to_string_pretty(Unwrap(procs[p].config)), TRUE)
       IN  file' = w.file /\ temps' = w.temps
    /\ procs' = [procs EXCEPT ![p].pc = "written"]
    /\ UNCHANGED << now, stdout, exit_status, ev >>

\* how many processes have renamed their temporary file over the policy file
Renames == Cardinality({ q \in Procs : procs[q].renamed > 0 })

\* temp_file.persist(config_path): the rename puts the temporary file in the
\* place of the policy file; the handler returns Ok and the status is 0
Persist(p) ==
    /\ procs[p].pc = "written"
    /\ TempName(p) \in DOMAIN temps
    /\ file' = { temps[TempName(p)] }
    /\ temps' = Remove(temps, TempName(p))
    /\ procs' = [procs EXCEPT ![p].pc = "exited", ![p].outcome = "saved",
                               ![p].exit_status = {0}, ![p].renamed = Renames + 1]
    /\ UNCHANGED << now, stdout, exit_status, ev >>

\* a file operation of save_config_atomic returns Err (no permission, disk
\* full, the temporary file is gone): the NamedTempFile is dropped, which
\* deletes it; the handler prints a warning and the status is 0
SaveFails(p) ==
    /\ procs[p].pc \in { "loaded", "created", "writing", "written" }
    /\ temps' = IF procs[p].pc = "loaded" THEN temps ELSE Remove(temps, TempName(p))
    /\ procs' = [procs EXCEPT ![p].pc = "exited", ![p].outcome = "save_failed",
                               ![p].exit_status = {0}]
    /\ UNCHANGED << file, now, stdout, exit_status, ev >>

\* the host kills the process; its temporary file stays where it is
Kill(p) ==
    /\ procs[p].pc \in { "started", "loaded", "created", "writing", "written" }
    /\ procs' = [procs EXCEPT ![p].pc = "exited", ![p].outcome = "killed"]
    /\ UNCHANGED << file, now, stdout, exit_status, ev, temps >>

InitSave ==
    /\ file \in { {}, {ExtendedFile}, {SyntaxDefectFile} }
    /\ now = 0
    /\ stdout = <<>>
    /\ exit_status = 0
    /\ ev = IdleEv
    /\ procs = NoProcs
    /\ temps = NoTemps

NextSave ==
    \E p \in Procs :
        \/ Start(p)
        \/ Load(p)
        \/ CreateTemp(p)
        \/ BeginWrite(p)
        \/ EndWrite(p)
        \/ Persist(p)
        \/ SaveFails(p)
        \/ Kill(p)

SpecSave == InitSave /\ [][NextSave]_vars

----------------------------------------------------------------------------
(* The learner on prompts of the shapes of its pattern table *)

K_and == <<"a","n","d">>

\* a keyword as typed: in lower case or in capitals
Kw(w, shout) == IF shout THEN to_uppercase(w) ELSE w

\* the phrase of shape n (the rows of LearningPatterns, in order) that names
\* replacement x, original y and context ctx
Phrase(n, x, y, ctx, shout) ==
    CASE n = 1 -> << Kw(K_always, shout), Kw(K_use, shout), x,
                     Kw(K_instead, shout), Kw(K_of, shout), y >>
      [] n = 2 -> << Kw(K_always, shout), Kw(K_use, shout), x, Kw(K_for, shout), y >>
      [] n = 3 -> << Kw(K_for, shout), Kw(K_this, shout), Kw(K_project, shout),
                     Kw(K_use, shout), x, Kw(K_instead, shout), Kw(K_of, shout), y >>
      [] n = 4 -> << Kw(K_for, shout), Kw(K_this, shout), Kw(K_project, shout),
                     Kw(K_use, shout), x >>
      [] n = 5 -> << Kw(K_for, shout), ctx, Kw(K_projects, shout), Kw(K_use, shout), x >>
      [] n = 6 -> << Kw(K_use, shout), x, Kw(K_instead, shout), Kw(K_of, shout), y >>
      [] n = 7 -> << Kw(K_i, shout), Kw(K_prefer, shout), x, Kw(K_over, shout), y >>
      [] n = 8 -> << Kw(K_lets, shout), Kw(K_use, shout), x >>

\* shapes that name the original, shapes that leave it to be inferred
TwoSided == { 1, 2, 3, 6, 7 }
OneSided == { 4, 5, 8 }

\* replacements with and without an entry in the inference table
TaughtReplacements ==
    { T_bun, T_yarn, T_pnpm, T_bunx, T_rg, T_fd, T_bat, T_eza, T_exa, T_podman, T_uv,
      T_less, to_uppercase(T_bat) }

TaughtContexts == { T_react, <<"R","e","a","c","t">> }

SinglePhrases ==
    { Phrase(n, x, y, T_react, shout)
      : n \in TwoSided, x \in { T_bat, T_less }, y \in { T_cat, T_npm }, shout \in BOOLEAN }
    \cup { Phrase(n, x, T_cat, ctx, shout)
           : n \in OneSided, x \in TaughtReplacements, ctx \in TaughtContexts,
             shout \in BOOLEAN }

\* "<phrase> and <phrase>"
DoublePhrases ==
    { Phrase(m, T_bat, T_cat, T_react, FALSE) \o << K_and >>
      \o Phrase(n, T_bun, T_npm, T_react, FALSE)
      : m \in 1..8, n \in 1..8 }

\* "please use X instead of Y" and the like
PolitePhrases ==
    { prefix \o Phrase(6, T_bat, T_cat, T_react, shout)
      : prefix \in { << K_lets >>, << K_please >>, << K_can, K_we >> }, shout \in BOOLEAN }

\* two phrases that name the same original in the same scope
RepeatedPhrases ==
    { Phrase(m, T_bat, T_cat, T_react, FALSE) \o << K_and >>
      \o Phrase(n, T_less, T_cat, T_react, FALSE)
      : m \in { 1, 6, 7 }, n \in { 1, 6, 7 } }

TaughtPrompts == SinglePhrases \cup DoublePhrases \cup PolitePhrases \cup RepeatedPhrases

\* a policy that already holds learned entries in every scope: cat -> less
\* and npm -> yarn globally, cat -> more for the project, npm -> pnpm for
\* react projects, each used three times
TaughtFile ==
    LET old(replacement, conf, scope) ==
            [ LearnedMapping(replacement, conf, 0, "natural_language", scope)
              EXCEPT !.usage_count = {3} ]
    IN  Policy(EmptyMap,
               Put(Put(EmptyMap, T_cat, old(T_less, 350, Scope("global", <<>>))),
                   T_npm, old(T_yarn, 630, Scope("global", <<>>))),
               Put(EmptyMap, T_cat, old(T_more, 644, Scope("project", <<>>))),
               Put(EmptyMap, T_react,
                   Put(EmptyMap, T_npm, old(T_pnpm, 602, Scope("context", T_react)))),
               EmptyMap)

\* what the learner made of the prompt: the vectors of extract_mappings and
\* the policy file as it was before the event
Taught(prompt, before) ==
    LET r == ExtractFrom(AllCaptures(prompt, 1), 1, <<>>, <<>>)
    IN  [ mappings |-> extract_mappings(prompt), used_spans |-> r.used_spans,
          before |-> before, handled |-> TRUE ]

\* a prompt of the table's shapes is about to be submitted, the policy file
\* absent or holding a policy
InitTeach ==
    /\ file \in { {}, { ExtendedFile }, { TaughtFile } }
    /\ now \in 0..MaxDay
    /\ stdout = <<>>
    /\ exit_status = 0
    /\ \E prompt \in TaughtPrompts :
           ev = [IdleEv EXCEPT !.input = HookInput("UserPromptSubmit", "", {}, {prompt}, {})]
                @@ [ mappings |-> <<>>, used_spans |-> <<>>, before |-> file,
                     handled |-> FALSE ]
    /\ procs = NoProcs
    /\ temps = NoTemps

\* the hook process of the user-prompt event
Teach ==
    /\ ~ ev.handled
    /\ \E o \in run_as_hook(ev.input, file, FALSE, now) :
           /\ file' = o.file
           /\ stdout' = o.stdout
           /\ exit_status' = o.exit_status
           /\ ev' = Ev(ev.input, FALSE, o) @@ Taught(Unwrap(ev.input.prompt), file)
    /\ UNCHANGED << now, procs, temps >>

NextTeach == Teach

SpecTeach == InitTeach /\ [][NextTeach]_vars

----------------------------------------------------------------------------
(* The execution analyzer on policies that earlier events have left *)

C_less_f == T_less \o <<" ", "f">>

P_relearn == << K_use, T_less, K_instead, K_of, T_cat >>

\* the prompt "use less instead of cat" on day 0
Relearnt == [ event |-> HookInput("UserPromptSubmit", "", {}, {P_relearn}, {}), day |-> 0 ]

\* the prompt "for this project use less instead of cat" on day 0
LearntForProject ==
    [ event |-> HookInput("UserPromptSubmit", "", {}, {P_project}, {}), day |-> 0 ]

\* cat -> bat learned (and, with proj, cat -> less for the project); "bat"
\* failed a times and succeeded b times; then, with c > 0, cat -> less learned
\* in its place and "less" failed c times; other commands up to n executions
AnalyzedHistory(proj, a, b, c, n) ==
    (IF proj THEN << LearntForProject >> ELSE <<>>)
    \o << Learnt >> \o Times(a, Ran(T_bat, 1)) \o Times(b, Ran(T_bat, 0))
    \o (IF c > 0 THEN << Relearnt >> \o Times(c, Ran(T_less, 1)) ELSE <<>>)
    \o Times(n - (a + b + c), Ran(T_ls, 0))

AnalyzedHistories ==
    { AnalyzedHistory(proj, a, b, c, 9)
      : proj \in BOOLEAN, a \in { 0, 3, 4 }, b \in { 0, 1 }, c \in { 0, 4 } }
    \cup { AnalyzedHistory(FALSE, 4, 0, 0, 8) }

\* commands of the post-tool events: the learned replacements with and
\* without an argument, and a command no mapping names
AnalyzedCommands == { T_bat, C_bat_f, T_less, T_ls }

InitAnalyze ==
    /\ file \in UNION { Replay({{}}, h) : h \in AnalyzedHistories }
    /\ now \in 0..MaxDay
    /\ stdout = <<>>
    /\ exit_status = 0
    /\ ev = IdleEv @@ [ before |-> {}, handled |-> FALSE, ran_on |-> {} ]
    /\ procs = NoProcs
    /\ temps = NoTemps

\* a post-tool event of the shell tool while the policy records fewer than
\* MaxAnalyzed executions; ran_on keeps the days on which housekeeping ran
Analyze ==
    /\ Len(load_config(file, now).execution_history.command_executions) < MaxAnalyzed
    /\ \E command \in AnalyzedCommands, exit_code \in ExitCodes :
           LET hook_input == HookInput("PostToolUse", "Bash", {command}, {}, {exit_code})
           IN  \E o \in run_as_hook(hook_input, file, FALSE, now) :
                   /\ file' = o.file
                   /\ stdout' = o.stdout
                   /\ exit_status' = o.exit_status
                   /\ ev' = Ev(hook_input, FALSE, o)
                            @@ [ before |-> file, handled |-> TRUE,
                                 ran_on |-> ev.ran_on
                                            \cup (IF o.maintenance THEN { now } ELSE {}) ]
    /\ UNCHANGED << now, procs, temps >>

NextAnalyze == Analyze \/ Tick

SpecAnalyze == InitAnalyze /\ [][NextAnalyze]_vars

----------------------------------------------------------------------------
(* Hook events on a policy with a never-suggest entry *)

\* on day 1, the policy Rejected leaves (cat -> bat is on never_suggest) or
\* the one FailingBare leaves (the next execution promotes cat -> bat)
InitNever ==
    /\ file \in Replay({{}}, Rejected) \cup Replay({{}}, FailingBare)
    /\ now = 1
    /\ stdout = <<>>
    /\ exit_status = 0
    /\ ev = IdleEv
    /\ procs = NoProcs
    /\ temps = NoTemps

\* a post-tool event for one of the replacements while the policy records
\* fewer than MaxAnalyzed executions
Reinforce ==
    /\ Len(load_config(file, now).execution_history.command_executions) < MaxAnalyzed
    /\ \E command \in { T_bat, T_less }, exit_code \in ExitCodes :
           Run(HookInput("PostToolUse", "Bash", {command}, {}, {exit_code}), FALSE)
    /\ UNCHANGED now

NextNever == UserPromptSubmit \/ PreToolUse \/ Reinforce

SpecNever == InitNever /\ [][NextNever]_vars

----------------------------------------------------------------------------
(* Post-tool events on a policy whose execution record is nearly full *)

\* n earlier executions of cat, told apart by their exit codes
Recorded(n) == [ k \in 1..n |-> CommandExecution(T_cat, k) ]

\* the policy after cat -> bat was learned and n executions were recorded
NearlyFull(n) ==
    { save_config_atomic([load_config(f, 0) EXCEPT
                              !.execution_history.command_executions = Recorded(n)])
      : f \in Replay({{}}, <<Learnt>>) }

RingCommands == { T_bat, T_ls }

InitRing ==
    /\ file \in UNION { NearlyFull(n) : n \in (MAX_EXECUTION_HISTORY - 2)..MAX_EXECUTION_HISTORY }
    /\ now = 0
    /\ stdout = <<>>
    /\ exit_status = 0
    /\ ev = IdleEv @@ [ before |-> {} ]
    /\ procs = NoProcs
    /\ temps = NoTemps

\* a post-tool event of the shell tool while fewer than MaxRing executions
\* have been recorded since the start
Record ==
    /\ LET executions == load_config(file, now).execution_history.command_executions
       IN  executions[Len(executions) - MaxRing + 1].command = T_cat
    /\ \E command \in RingCommands, exit_code \in ExitCodes :
           LET hook_input == HookInput("PostToolUse", "Bash", {command}, {}, {exit_code})
           IN  \E o \in run_as_hook(hook_input, file, FALSE, now) :
                   /\ file' = o.file
                   /\ stdout' = o.stdout
                   /\ exit_status' = o.exit_status
                   /\ ev' = Ev(hook_input, FALSE, o) @@ [ before |-> file ]
    /\ UNCHANGED << now, procs, temps >>

NextRing == Record \/ Tick

SpecRing == InitRing /\ [][NextRing]_vars

----------------------------------------------------------------------------
(* The resolver on policies in which several patterns of a tier match *)

T_start == <<"s","t","a","r","t">>
T_test  == <<"t","e","s","t">>
T_dev   == <<"d","e","v">>
T_node  == <<"n","o","d","e">>

C_npm_start == T_npm \o <<" ">> \o T_start
C_npm_test  == T_npm \o <<" ">> \o T_test
C_bun_dev   == T_bun \o <<" ">> \o T_dev
C_bun_test  == T_bun \o <<" ">> \o T_test

\* main.rs get_commands_for_project_type("Node.js"): the entries for npm
\* alone, then with "npm start", then with "npm test" as well
NodeCommands ==
    { Put(EmptyMap, T_npm, T_bun),
      Put(Put(EmptyMap, T_npm, T_bun), C_npm_start, C_bun_dev),
      Put(Put(Put(EmptyMap, T_npm, T_bun), C_npm_start, C_bun_dev),
          C_npm_test, C_bun_test) }

NpmEntry(replacement, scope) ==
    Put(EmptyMap, T_npm, LearnedMapping(replacement, 630, 0, "natural_language", scope))

\* no context, one context, or two contexts that hold the same original
TieContexts ==
    { EmptyMap,
      Put(EmptyMap, T_react, NpmEntry(T_pnpm, Scope("context", T_react))),
      Put(Put(EmptyMap, T_react, NpmEntry(T_pnpm, Scope("context", T_react))),
          T_node, NpmEntry(T_yarn, Scope("context", T_node))) }

TiePolicies ==
    { Policy(commands, EmptyMap,
             IF p THEN NpmEntry(T_bun, Scope("project", <<>>)) ELSE EmptyMap,
             context, EmptyMap)
      : commands \in NodeCommands, context \in TieContexts, p \in BOOLEAN }

TieCommands == { T_npm, C_npm_start, C_npm_test, T_ls }

InitTie ==
    /\ file \in { {q} : q \in TiePolicies }
    /\ now = 0
    /\ stdout = <<>>
    /\ exit_status = 0
    /\ ev = IdleEv
    /\ procs = NoProcs
    /\ temps = NoTemps

\* a pre-tool event of the shell tool
Resolve ==
    /\ \E command \in TieCommands, replace_mode \in BOOLEAN :
           Run(HookInput("PreToolUse", "Bash", {command}, {}, {}), replace_mode)
    /\ UNCHANGED now

NextTie == Resolve

SpecTie == InitTie /\ [][NextTie]_vars

----------------------------------------------------------------------------
(* Post-tool events over months, on policies with a mapping to bat in
   several tiers *)

\* the days on which events arrive: the mappings were learned on day 0, or
\* on day 1 in a file whose last_updated is still day 0; the decay reaches its
\* cap 105 days after learned_at
MaintainDays == { 0, 1, 105, 106 }

\* confidences below the floor of the decay, just above it, and full
MaintainConfidences == { 35, 72, FullConfidence }

MaintainTiers == { { "global", "context" }, { "project", "global", "context" } }

BatEntry(original, c, scope, learned_at) ==
    Put(EmptyMap, original,
        LearnedMapping(T_bat, c, learned_at, "natural_language", scope))

\* a policy with the static mapping ls -> eza, mappings cat -> bat (global),
\* more -> bat (context react) and less -> bat (project) and nine executions
\* of ls on record
MaintainedPolicy(c, tiers, learned_at) ==
    Document([ commands |-> Put(EmptyMap, T_ls, T_eza),
               learned |->
                   [ global  |-> IF "global" \in tiers
                                 THEN BatEntry(T_cat, c, Scope("global", <<>>), learned_at)
                                 ELSE EmptyMap,
                     project |-> IF "project" \in tiers
                                 THEN BatEntry(T_less, c, Scope("project", <<>>), learned_at)
                                 ELSE EmptyMap,
                     context |-> IF "context" \in tiers
                                 THEN Put(EmptyMap, T_react,
                                          BatEntry(T_more, c, Scope("context", T_react),
                                                   learned_at))
                                 ELSE EmptyMap ],
               learning_meta |-> {NewLearningMetadata(0, CURRENT_VERSION)},
               never_suggest |-> EmptyMap,
               execution_history |->
                   [EmptyHistory EXCEPT !.command_executions =
                       Times(MIN_EXECUTIONS_FOR_MAINTENANCE - 1, CommandExecution(T_ls, 0))] ],
             Sections \cup { "commands" }, {}, "none")

\* executions of bat and of eza that succeed or fail, and one of ls
MaintainExecutions == ({ T_bat, T_eza } \X ExitCodes) \cup { << T_ls, 0 >> }

\* learned_with keeps the confidence the mappings to bat were learned with
InitMaintain ==
    /\ \E c \in MaintainConfidences, tiers \in MaintainTiers, learned_at \in { 0, 1 } :
          /\ learned_at = 1 => c = FullConfidence /\ tiers = { "global", "context" }
          /\ file = { MaintainedPolicy(c, tiers, learned_at) }
          /\ ev = IdleEv @@ [ before |-> {}, ran_on |-> {}, learned_with |-> c ]
    /\ now = 0
    /\ stdout = <<>>
    /\ exit_status = 0
    /\ procs = NoProcs
    /\ temps = NoTemps

\* a post-tool event of the shell tool while the policy records fewer than
\* MaxMaintained executions; ran_on keeps the days on which housekeeping ran
Execute ==
    /\ Len(load_config(file, now).execution_history.command_executions) < MaxMaintained
    /\ \E x \in MaintainExecutions :
           LET hook_input == HookInput("PostToolUse", "Bash", {x[1]}, {}, {x[2]})
           IN  \E o \in run_as_hook(hook_input, file, FALSE, now) :
                   /\ file' = o.file
                   /\ stdout' = o.stdout
                   /\ exit_status' = o.exit_status
                   /\ ev' = Ev(hook_input, FALSE, o)
                            @@ [ before |-> file,
                                 ran_on |-> ev.ran_on
                                            \cup (IF o.maintenance THEN { now } ELSE {}),
                                 learned_with |-> ev.learned_with ]
    /\ UNCHANGED << now, procs, temps >>

\* the prompt "for this project use less instead of cat", once
Teach1 ==
    /\ \A m \in load_config(file, now).learning_meta : m.total_mappings_learned < 1
    /\ LET hook_input == HookInput("UserPromptSubmit", "", {}, {P_project}, {})
       IN  \E o \in run_as_hook(hook_input, file, FALSE, now) :
               /\ file' = o.file
               /\ stdout' = o.stdout
               /\ exit_status' = o.exit_status
               /\ ev' = Ev(hook_input, FALSE, o)
                        @@ [ before |-> file, ran_on |-> ev.ran_on,
                             learned_with |-> ev.learned_with ]
    /\ UNCHANGED << now, procs, temps >>

\* time passes to a later one of the days
Advance ==
    /\ \E d \in MaintainDays : d > now /\ now' = d
    /\ UNCHANGED << file, stdout, exit_status, ev, procs, temps >>

NextMaintain == Execute \/ Teach1 \/ Advance

SpecMaintain == InitMaintain /\ [][NextMaintain]_vars

----------------------------------------------------------------------------
(* Two concurrent hook processes on a policy that is due for a promotion,
   and the executions of the days after *)

\* cat -> bat learned on day 0, three failed executions of bat (four counted
\* attempts) and six of ls
FailingThrice == <<Learnt>> \o Times(3, Ran(T_bat, 1)) \o Times(6, Ran(T_ls, 0))

\* day 1: nine executions are on record and last_updated is day 0, so the
\* next execution runs housekeeping
InitRecover ==
    /\ file \in Replay({{}}, FailingBare) \cup Replay({{}}, FailingThrice)
    /\ now = 1
    /\ stdout = <<>>
    /\ exit_status = 0
    /\ ev = IdleEv
    /\ procs = NoProcs
    /\ temps = NoTemps

AllExited == \A p \in Procs : procs[p].pc = "exited"

\* one file operation of one of the two processes
Concurrently ==
    \E p \in Procs :
        \/ Start(p)
        \/ Load(p)
        \/ CreateTemp(p)
        \/ BeginWrite(p)
        \/ EndWrite(p)
        \/ Persist(p)

\* both processes are gone, and there is a further execution of bat to
\* come: while fewer than MaxExecutions executions are on record, and as the
\* first event since last_updated on a later day
FailsAgainDue ==
    /\ AllExited
    /\ ~ load_config_is_err(file)
    /\ LET config == load_config(file, now)
       IN  \/ Len(config.execution_history.command_executions) < MaxExecutions
           \/ \E m \in config.learning_meta : m.last_updated < now

\* bat fails again
FailsAgain ==
    /\ FailsAgainDue
    /\ Run(HookInput("PostToolUse", "Bash", {T_bat}, {}, {1}), FALSE)
    /\ UNCHANGED now

\* once both processes are gone: the next day
NextDay ==
    /\ AllExited
    /\ now < MaxRecoverDay
    /\ now' = now + 1
    /\ UNCHANGED << file, stdout, exit_status, ev, procs, temps >>

NextRecover == Concurrently \/ FailsAgain \/ NextDay

\* FailsAgain is enabled exactly where FailsAgainDue holds: the event always
\* has an outcome, and the outcome records the execution
FailsAgainEnabled == FailsAgainDue <=> ENABLED << FailsAgain >>_vars

\* time passes, and executions of bat keep occurring: weak fairness of
\* NextDay and of FailsAgain, the latter written with FailsAgainDue for
\* ENABLED << FailsAgain >>_vars
SpecRecover ==
    InitRecover /\ [][NextRecover]_vars /\ WF_vars(NextDay) /\ ([]<>(~ FailsAgainDue) \/ []<><< FailsAgain >>_vars)

----------------------------------------------------------------------------
(* The matchers on their own *)

MatchAlphabet == { "a", "b", " ", "-" }

RECURSIVE StringsUpTo(_)
StringsUpTo(n) ==
    IF n = 0 THEN { <<>> }
    ELSE LET shorter == StringsUpTo(n - 1)
         IN  shorter \cup { Append(w, c) : w \in shorter, c \in MatchAlphabet }

MatchPatterns == { <<"a">>, <<"b", "a">> }

\* every short text, and "b-<pattern>-b"
MatchCommands ==
    (StringsUpTo(MaxCmdLen) \ { <<>> })
    \cup { << "b", "-" >> \o pt \o << "-", "b" >> : pt \in MatchPatterns }

MatchReplacements == { <<"b">>, <<"a", "b">> }

\* [semantic_directories] of the policy: its pattern is also the alias of a
\* directory that exists (an alias maps to the Option resolve_directory
\* returns for it)
D_docs == << "/", "d" >>

SemanticDirectories == [ alias \in DOMAIN Unwrap(file).commands |-> { D_docs } ]

MatchEv(command, detected) ==
    [ command |-> command,
      main_match |-> check_pattern_matches(Unwrap(file).commands, command),
      hooks_match |-> hooks_check_command_mappings(Unwrap(file).commands, command),
      resolved |-> resolve_command_mapping(load_config(file, now), command),
      detected |-> detected ]

InitMatch ==
    /\ file \in { { Policy(Put(EmptyMap, pt, r), EmptyMap, EmptyMap, EmptyMap,
                             IF n THEN Put(EmptyMap, pt, r) ELSE EmptyMap) }
                  : pt \in MatchPatterns, r \in MatchReplacements, n \in BOOLEAN }
    /\ now = 0
    /\ stdout = <<>>
    /\ exit_status = 0
    /\ ev = [ command |-> <<>>, main_match |-> {}, hooks_match |-> {}, resolved |-> {},
              detected |-> {} ]
    /\ procs = NoProcs
    /\ temps = NoTemps

\* both matchers, the resolver and the directory detection applied to one
\* text, once per policy and run
MatchStep ==
    /\ ev.command = <<>>
    /\ \E command \in MatchCommands :
           \E detected \in detect_directory_references(SemanticDirectories, command) :
               ev' = MatchEv(command, detected)
    /\ UNCHANGED << file, now, stdout, exit_status, procs, temps >>

NextMatch == MatchStep

SpecMatch == InitMatch /\ [][NextMatch]_vars

----------------------------------------------------------------------------
(* Properties of the pre-tool path, under SpecResolve *)

\* the last event was a pre-tool event for the shell tool
PreBash ==
    /\ ev.input.hook_event_name = "PreToolUse"
    /\ ev.input.tool_name = "Bash"
    /\ ev.input.command # {}

Cmd == Unwrap(ev.input.command)

\* the policy as a hook process reads it from disk
Stored == load_config(file, now)

NeverMatches == \E o \in DOMAIN Stored.never_suggest : IsMatch(o, Cmd)

OtherSources == { "ProjectLearned", "ContextLearned", "GlobalLearned", "Static" }

\* C1: when the command of a pre-tool shell event matches (in the resolver's
\* own sense of a match) a key of never_suggest, the resolver returns no result
\* of the project, context, global or static tier, whatever those tiers hold,
\* and check_command_mappings returns no suggestion: nothing is printed.
C1_NeverSuggestSupremacy ==
    (PreBash /\ NeverMatches) =>
        /\ \A r \in ev.resolved : r.source \notin OtherSources
        /\ check_command_mappings_of(ev.resolved) = {}
        /\ check_command_mappings(Stored, Cmd) = {}
        /\ stdout = <<>>

\* a never-suggest key matched while the project, global and static tiers all
\* held an eligible entry for the command
C1_Witness ==
    /\ PreBash /\ NeverMatches
    /\ T_cat \in DOMAIN Stored.learned.project
    /\ Stored.learned.project[T_cat].confidence >= DEFAULT_CONFIDENCE_THRESHOLD
    /\ T_cat \in DOMAIN Stored.learned.global
    /\ Stored.learned.global[T_cat].confidence >= DEFAULT_CONFIDENCE_THRESHOLD
    /\ T_cat \in DOMAIN Stored.commands
    /\ \E r \in ev.resolved : r.source = "NeverSuggest"

\* C2: on a pre-tool shell event whose command hits a mapping of a source
\* other than never-suggest, standard output holds exactly one object whose
\* decision is "replace" in replace mode and "block" otherwise, with a reason,
\* with replacement_command present exactly in replace mode and then equal to
\* the substituted command; the exit status is 0.
C2_HitResponse ==
    \A r \in ev.resolved :
        (PreBash /\ r.source # "NeverSuggest") =>
            /\ Len(stdout) = 1
            /\ stdout[1].decision = (IF ev.replace_mode THEN "replace" ELSE "block")
            /\ stdout[1].reason.running = r.replacement_command
            /\ stdout[1].replacement_command =
                   (IF ev.replace_mode THEN {r.replacement_command} ELSE {})
            /\ exit_status = 0

\* a block-mode hit
C2_Witness ==
    /\ PreBash /\ ~ev.replace_mode
    /\ \E r \in ev.resolved : r.source = "GlobalLearned"
    /\ Len(stdout) = 1 /\ stdout[1].decision = "block"

\* C3: on a pre-tool event that is a miss, a never-suggest hit, or an event
\* of a tool other than the shell tool, nothing is written to standard output
\* and the exit status is 0.
C3_SilentAllow ==
    ( /\ ev.input.hook_event_name = "PreToolUse"
      /\ \/ ev.input.tool_name # "Bash"
         \/ ev.resolved = {}
         \/ \A r \in ev.resolved : r.source = "NeverSuggest" )
    => (stdout = <<>> /\ exit_status = 0)

\* the three cases apart: a miss or a never-suggest hit of the shell tool ...
C3_ShellToolSilent ==
    (PreBash /\ \A r \in ev.resolved : r.source = "NeverSuggest")
    => (stdout = <<>> /\ exit_status = 0)

\* ... and another tool whose input carries no command
C3_OtherToolFails ==
    /\ ev.input.hook_event_name = "PreToolUse"
    /\ ev.input.tool_name = "Write"
    /\ ev.input.command = {}
    /\ exit_status = 1

\* the tiers from the highest to the lowest
TierOrder == << "NeverSuggest", "ProjectLearned", "ContextLearned", "GlobalLearned", "Static" >>

Eligible(mappings, command) ==
    { ReplaceAll(o, mappings[o].replacement, command)
      : o \in { q \in DOMAIN mappings :
                  /\ mappings[q].confidence >= DEFAULT_CONFIDENCE_THRESHOLD
                  /\ IsMatch(q, command) } }

Listed(patterns, command) ==
    { ReplaceAll(o, patterns[o], command)
      : o \in { q \in DOMAIN patterns : IsMatch(q, command) } }

\* per tier, the substituted commands of its eligible matching entries
TierHits(config, command) ==
    << Listed(config.never_suggest, command),
       Eligible(config.learned.project, command),
       UNION { Eligible(config.learned.context[c], command)
               : c \in DOMAIN config.learned.context },
       Eligible(config.learned.global, command),
       Listed(config.commands, command) >>

\* C4: when eligible entries of several tiers match the command, the resolver
\* returns the match of the highest tier in the order never-suggest,
\* project-learned, context-learned, global-learned, static; it returns
\* nothing only when no tier matches.
C4_StrictPriority ==
    PreBash =>
        LET hits == TierHits(Stored, Cmd)
            tiers == { k \in 1..Len(TierOrder) : hits[k] # {} }
        IN  IF tiers = {} THEN ev.resolved = {}
            ELSE LET top == CHOOSE k \in tiers : \A j \in tiers : k <= j
                 IN  /\ ev.resolved # {}
                     /\ \A r \in ev.resolved :
                            /\ r.source = TierOrder[top]
                            /\ r.replacement_command \in hits[top]

\* project (0.90), global (0.90) and static entries for cat, no never-suggest
\* entry: "cat f" resolves to the project tier's "less f"
C4_Witness ==
    /\ PreBash /\ Cmd = C_cat_f /\ ~NeverMatches
    /\ T_cat \in DOMAIN Stored.learned.project
    /\ Stored.learned.project[T_cat].confidence > DEFAULT_CONFIDENCE_THRESHOLD
    /\ T_cat \in DOMAIN Stored.learned.global
    /\ Stored.learned.global[T_cat].confidence > DEFAULT_CONFIDENCE_THRESHOLD
    /\ T_cat \in DOMAIN Stored.commands
    /\ \E r \in ev.resolved :
           r.source = "ProjectLearned" /\ r.replacement_command = T_less \o <<" ", "f">>

LearnedSources == { "ProjectLearned", "ContextLearned", "GlobalLearned" }

\* the matching entries of the three learned tiers
LearnedMatching(config, command) ==
    { m \in { config.learned.project[o] : o \in { q \in DOMAIN config.learned.project
                                                     : IsMatch(q, command) } }
            \cup { config.learned.global[o] : o \in { q \in DOMAIN config.learned.global
                                                        : IsMatch(q, command) } }
            \cup UNION { { config.learned.context[c][o]
                           : o \in { q \in DOMAIN config.learned.context[c]
                                       : IsMatch(q, command) } }
                         : c \in DOMAIN config.learned.context } : TRUE }

GateHolds ==
    PreBash =>
        /\ \A r \in ev.resolved :
               r.source \in LearnedSources => r.confidence >= DEFAULT_CONFIDENCE_THRESHOLD
        /\ ( /\ ~NeverMatches
             /\ \A m \in LearnedMatching(Stored, Cmd) :
                    m.confidence < DEFAULT_CONFIDENCE_THRESHOLD
             /\ \E o \in DOMAIN Stored.commands : IsMatch(o, Cmd) )
           => (ev.resolved # {} /\ \A r \in ev.resolved : r.source = "Static")
        /\ ( /\ ~NeverMatches
             /\ \E o \in DOMAIN Stored.learned.project :
                    /\ IsMatch(o, Cmd)
                    /\ Stored.learned.project[o].confidence = DEFAULT_CONFIDENCE_THRESHOLD )
           => (ev.resolved # {} /\ \A r \in ev.resolved : r.source = "ProjectLearned")
        /\ ( /\ ~NeverMatches
             /\ \A m \in LearnedMatching(Stored, Cmd) :
                    m.confidence < DEFAULT_CONFIDENCE_THRESHOLD
             /\ \A o \in DOMAIN Stored.commands : ~IsMatch(o, Cmd) )
           => ev.resolved = {}

\* C5: the resolver never returns a learned entry whose confidence is below
\* 0.70; such an entry does not shadow a matching static entry; an entry at
\* exactly 0.70 is returned; and the pre-tool event leaves the policy file,
\* the gated entry included, as it was.
C5_ConfidenceGate ==
    [][ (ev'.input.hook_event_name = "PreToolUse" /\ now' = now)
        => (file' = file /\ GateHolds') ]_vars

\* a project entry just below the threshold and a static entry: the static
\* one is returned and the project one is still in the file
C5_Witness ==
    /\ PreBash /\ ~NeverMatches
    /\ T_cat \in DOMAIN Stored.learned.project
    /\ Stored.learned.project[T_cat].confidence < DEFAULT_CONFIDENCE_THRESHOLD
    /\ \E r \in ev.resolved : r.source = "Static"

----------------------------------------------------------------------------
(* Properties of the matcher, under SpecMatch *)

\* the one entry of the policy
Pattern == CHOOSE pt \in DOMAIN Unwrap(file).commands : TRUE

Replacement == Unwrap(file).commands[Pattern]

\* the text after the leading pattern
Trailing == SubSeq(ev.command, Len(Pattern) + 1, Len(ev.command))

\* C6: applied to a command P + T, where the trailing text T is empty or
\* begins with whitespace (and may hold P again as a later token), the matcher
\* of the resolver produces exactly R + T.
C6_PrimaryCommandMatch ==
    StartsWithToken(ev.command, Pattern) =>
        { m.suggested_command : m \in ev.main_match } = { Replacement \o Trailing }

\* the same statement for the matcher of hooks.rs
C6_LibraryMatcher ==
    StartsWithToken(ev.command, Pattern) =>
        { m.suggested_command : m \in ev.hooks_match } = { Replacement \o Trailing }

\* C7: the matcher of the resolver fires only on a command that begins with
\* the pattern followed by whitespace or the end of the string.
C7_FiresOnlyAtStart ==
    ev.main_match # {} => StartsWithToken(ev.command, Pattern)

\* the same statement for the matcher of hooks.rs
C7_LibraryMatcher ==
    ev.hooks_match # {} => StartsWithToken(ev.command, Pattern)

\* the policy has no learned and no never-suggest entry
OnlyStatic(config) ==
    /\ config.never_suggest = EmptyMap
    /\ config.learned.global = EmptyMap
    /\ config.learned.project = EmptyMap
    /\ \A n \in DOMAIN config.learned.context : config.learned.context[n] = EmptyMap

Alias == CHOOSE alias \in DOMAIN SemanticDirectories : TRUE

Fires == \E r \in ev.detected : r.alias_used = Alias

\* the alias stands in the text between whitespace or the ends of the text
AsToken(alias, text) ==
    \E i \in 1..Len(text) :
        /\ i + Len(alias) - 1 <= Len(text)
        /\ SubSeq(text, i, i + Len(alias) - 1) = alias
        /\ (i = 1 \/ text[i - 1] \in WhiteSpace)
        /\ (i + Len(alias) - 1 = Len(text) \/ text[i + Len(alias)] \in WhiteSpace)

\* words "foo" and "bar"
Glue == { <<"a">>, <<"b">>, <<"a", "b">> }

\* "fooA" and "Afoo"
WordGlued(alias) == { w \o alias : w \in Glue } \cup { alias \o w : w \in Glue }

\* "foo-A-bar"
HyphenGlued(alias) == { w \o <<"-">> \o alias \o <<"-">> \o v : w \in Glue, v \in Glue }

\* C23: detection of an alias A fires on a text in which A is a
\* whitespace-delimited token (the exact text A included) and does not fire
\* on "fooA", "Afoo" or "foo-A-bar".
C23_TokenBoundary ==
    /\ AsToken(Alias, ev.command) => Fires
    /\ ev.command \in WordGlued(Alias) \cup HyphenGlued(Alias) => ~ Fires

\* the parts of C23 that hold: tokens fire, and "fooA" and "Afoo" do not
C23_TokensAndWords ==
    /\ AsToken(Alias, ev.command) => Fires
    /\ ev.command \in WordGlued(Alias) => ~ Fires

\* detection has fired on "b-a-b" for the alias "a"
C23_HyphenFires ==
    /\ Alias = <<"a">>
    /\ ev.command = <<"b", "-", "a", "-", "b">>
    /\ Fires

----------------------------------------------------------------------------
(* Properties of the whole pipeline, under Spec *)

\* every learned mapping of a policy, whatever its tier
AllLearned(config) ==
    { config.learned.project[o] : o \in DOMAIN config.learned.project }
    \cup { config.learned.global[o] : o \in DOMAIN config.learned.global }
    \cup UNION { { config.learned.context[c][o] : o \in DOMAIN config.learned.context[c] }
                 : c \in DOMAIN config.learned.context }

\* C8: after any sequence of outcome updates and decay runs, the confidence of
\* every learned mapping of every tier lies in [0.10, 1.00].
C8_ConfidenceClamp ==
    \A m \in AllLearned(Stored) :
        MinDecayedConfidence <= m.confidence /\ m.confidence <= FullConfidence

\* the outcome update that leaves a confidence below 0.10
C8_BelowFloor ==
    /\ ev.input.hook_event_name = "PostToolUse"
    /\ ev.correlated # {}
    /\ \E m \in AllLearned(Stored) : m.confidence < MinDecayedConfidence

\* the (original, replacement) pairs of the learned tiers
LearnedPairs(config) ==
    { << o, config.learned.project[o].replacement >> : o \in DOMAIN config.learned.project }
    \cup { << o, config.learned.global[o].replacement >> : o \in DOMAIN config.learned.global }
    \cup UNION { { << o, config.learned.context[c][o].replacement >>
                   : o \in DOMAIN config.learned.context[c] }
                 : c \in DOMAIN config.learned.context }

\* the recorded executions of the suggested form of a mapping to r
SuggestedRuns(config, r) ==
    { k \in 1..Len(config.execution_history.command_executions) :
        StartsWithToken(config.execution_history.command_executions[k].command, r) }

SuccessfulRuns(config, r) ==
    { k \in SuggestedRuns(config, r) :
        config.execution_history.command_executions[k].success }

PersistentlyFailing(config, r) ==
    /\ Cardinality(SuggestedRuns(config, r)) >= MIN_ATTEMPTS
    /\ Cardinality(SuccessfulRuns(config, r)) * 10 < 3 * Cardinality(SuggestedRuns(config, r))

LearnedKeys(config) == { pr[1] : pr \in LearnedPairs(config) }

\* o -> r is in never_suggest, o is in no learned tier, and a pre-tool shell
\* event for a command starting with o prints nothing
Promoted(config, o, r, t) ==
    /\ o \in DOMAIN config.never_suggest
    /\ config.never_suggest[o] = r
    /\ o \notin LearnedKeys(config)
    /\ \A c \in { x \in PreCommands : StartsWithToken(x, o) } :
           \A out \in handle_pre_tool_use(HookInput("PreToolUse", "Bash", {c}, {}, {}),
                                          save_config_atomic(config), FALSE, t) :
               out.stdout = <<>>

\* C9: when the recorded executions of the suggested form of a learned mapping
\* O -> R number at least 5 and fewer than 30% of them succeeded, a housekeeping
\* run leaves never_suggest[O] = R, O in no learned tier, and a pre-tool shell
\* event for a command starting with O without output.
C9_PersistentFailuresPromoted ==
    [][ (ev'.input.hook_event_name = "PostToolUse" /\ ev'.maintenance /\ now' = now)
        => \A pr \in LearnedPairs(Stored) :
               PersistentlyFailing(load_config(file', now'), pr[2])
               => Promoted(load_config(file', now'), pr[1], pr[2], now') ]_vars

\* housekeeping ran over five failed runs of "bat f" and left cat -> bat learned
C9_NotPromoted ==
    /\ ev.input.hook_event_name = "PostToolUse" /\ ev.maintenance
    /\ PersistentlyFailing(Stored, T_bat)
    /\ << T_cat, T_bat >> \in LearnedPairs(Stored)
    /\ T_cat \notin DOMAIN Stored.never_suggest

\* a prompt that reads "use X instead of Y"
IsDirect(prompt) ==
    /\ Len(prompt) = 5
    /\ prompt[1] = K_use /\ prompt[3] = K_instead /\ prompt[4] = K_of

\* the first half of C10: after the prompt "use X instead of Y" nothing is
\* printed and the file holds learned.global[Y] = (X, 0.90, natural_language)
LearnedFromPrompt ==
    \A prompt \in ev.input.prompt :
        (ev.input.hook_event_name = "UserPromptSubmit" /\ IsDirect(prompt)) =>
            /\ stdout = <<>> /\ exit_status = 0
            /\ file # {}
            /\ prompt[5] \in DOMAIN Unwrap(file).learned.global
            /\ Unwrap(file).learned.global[prompt[5]].replacement = prompt[2]
            /\ Unwrap(file).learned.global[prompt[5]].confidence = 630
            /\ Unwrap(file).learned.global[prompt[5]].learned_from = "natural_language"

\* the response carries the command with X substituted for Y
AnsweredWith(x, y) ==
    /\ Len(stdout) = 1
    /\ stdout[1].decision = (IF ev.replace_mode THEN "replace" ELSE "block")
    /\ stdout[1].reason.running = ReplaceAll(y, x, Cmd)
    /\ exit_status = 0

\* no higher tier and no other global entry answers for the command
Unshadowed(x, y) ==
    LET hits == TierHits(Stored, Cmd)
    IN  hits[1] = {} /\ hits[2] = {} /\ hits[3] = {} /\ hits[4] = { ReplaceAll(y, x, Cmd) }

\* C10 as stated: after the prompt "use X instead of Y", the learned entry is
\* on disk and the next pre-tool shell event for a command starting with Y is
\* answered with the X-substituted command.
C10_LearnThenSuggest_AsStated ==
    /\ LearnedFromPrompt
    /\ \A prompt \in ev.prev_prompt :
           (PreBash /\ IsDirect(prompt) /\ StartsWithToken(Cmd, prompt[5]))
           => AnsweredWith(prompt[2], prompt[5])

\* C10, amended: after the prompt "use X instead of Y", the learned entry is
\* on disk; the next pre-tool shell event for a command starting with Y is
\* answered with the X-substituted command provided that no never_suggest key,
\* no eligible project or context entry and no other eligible global entry
\* matches the command.
C10_LearnThenSuggest ==
    /\ LearnedFromPrompt
    /\ \A prompt \in ev.prev_prompt :
           ( /\ PreBash /\ IsDirect(prompt) /\ StartsWithToken(Cmd, prompt[5])
             /\ Unshadowed(prompt[2], prompt[5]) )
           => AnsweredWith(prompt[2], prompt[5])

\* "use bat instead of cat", then "cat f" is blocked with "bat f"
C10_Witness ==
    /\ PreBash /\ ev.prev_prompt = {P_direct} /\ Cmd = C_cat_f
    /\ Unshadowed(T_bat, T_cat)
    /\ ~ev.replace_mode
    /\ Len(stdout) = 1 /\ stdout[1].decision = "block"
    /\ stdout[1].reason.running = C_bat_f

----------------------------------------------------------------------------
(* Properties of the policy store, under SpecStore *)

\* the typed form of the event does not deserialize
InputUnparsable(input) ==
    \/ input.hook_event_name \in { "PreToolUse", "PostToolUse" } /\ input.command = {}
    \/ input.hook_event_name = "UserPromptSubmit" /\ input.prompt = {}
    \/ ~ (GenericFields \subseteq input.common)

\* C11: the exit status is 0 after every handled event (pre-tool, user-prompt,
\* post-tool, unknown), also when the policy cannot be loaded or saved; it is
\* non-zero only when the input JSON cannot be parsed.
C11_ExitStatusZero == exit_status # 0 => InputUnparsable(ev.input)

\* a post-tool event with well-formed input ended with status 1 because the
\* policy file could not be loaded
C11_LoadFailureExit ==
    /\ ev.input.hook_event_name = "PostToolUse"
    /\ ~ InputUnparsable(ev.input)
    /\ load_config_is_err(file)
    /\ exit_status = 1

\* the event parses as GenericHookInput and names none of the three events
IsUnknownEvent(input) ==
    /\ GenericFields \subseteq input.common
    /\ input.hook_event_name \notin { "", "PreToolUse", "UserPromptSubmit", "PostToolUse" }

Untimed(mappings) ==
    [ o \in DOMAIN mappings |->
        [ replacement |-> mappings[o].replacement, confidence |-> mappings[o].confidence,
          learned_from |-> mappings[o].learned_from, usage_count |-> mappings[o].usage_count,
          context |-> mappings[o].context ] ]

\* every field of a policy but its timestamps, its version tag and which
\* empty sections are written out
SemanticFields(config) ==
    [ commands |-> config.commands,
      global |-> Untimed(config.learned.global),
      project |-> Untimed(config.learned.project),
      context |-> [ n \in DOMAIN config.learned.context |->
                      Untimed(config.learned.context[n]) ],
      never_suggest |-> config.never_suggest,
      execution_history |-> config.execution_history,
      counters |-> { [ total_mappings_learned |-> m.total_mappings_learned,
                       session_mappings |-> m.session_mappings,
                       user_corrections |-> m.user_corrections ]
                     : m \in config.learning_meta } ]

\* the instants from now on
Later == now..(MaxDay + 1)

C15_UnknownPreserved ==
    [][ (file # {} /\ ~ load_config_is_err(file) /\ file' # {})
        => Unwrap(file).unknown \subseteq Unwrap(file').unknown ]_vars

\* a user-prompt event has written learned entries into a file that has no
\* table unknown to the program
C15_Rewritten ==
    /\ ev.input.hook_event_name = "UserPromptSubmit"
    /\ file # {}
    /\ Unwrap(file).unknown = {}
    /\ DOMAIN Unwrap(file).never_suggest # {}
    /\ DOMAIN Unwrap(file).learned.global # {}

\* every optional section of a loaded policy is Some
Materialized(config) == Sections \subseteq config.present /\ config.learning_meta # {}

\* C16: loading an absent policy file is not an error, gives a fresh policy
\* and leaves the file absent; and every successful load (absent, enhanced or
\* legacy file) gives a policy whose optional sections (learned global, project
\* and context, never_suggest, execution_history, learning metadata) are all
\* present as empty containers rather than absent.
C16_AbsentAndMaterialized ==
    /\ file = {} => /\ ~ load_config_is_err(file)
                    /\ SemanticFields(load_config(file, now))
                         = SemanticFields(migrate_legacy_config(EmptyMap, now))
    /\ ~ load_config_is_err(file) => Materialized(load_config(file, now))

\* a pre-tool event loaded the absent policy file: the file is still absent
\* and the loaded policy has no learned section
C16_AbsentNotMaterialized ==
    /\ ev.input.hook_event_name = "PreToolUse"
    /\ exit_status = 0
    /\ file = {}
    /\ "learned" \notin load_config(file, now).present

\* a load does not create the policy file
C16_LoadDoesNotCreate ==
    [][ (file = {} /\ ev'.input.hook_event_name = "PreToolUse") => file' = {} ]_vars

\* the file holds a [commands] table and nothing else
IsLegacy(f) ==
    /\ f # {}
    /\ Unwrap(f).present = { "commands" }
    /\ Unwrap(f).learning_meta = {}
    /\ Unwrap(f).unknown = {}
    /\ Unwrap(f).defect = "none"

\* C17: a policy file that holds only a [commands] table loads without error;
\* the loaded policy has every static mapping of the file, all other sections
\* present and empty and all counters zero; and saving it and loading it again
\* gives the same static mappings.
C17_LegacyAdmission ==
    IsLegacy(file)
    => LET loaded == load_config(file, now)
       IN  /\ ~ load_config_is_err(file)
           /\ loaded.commands = Unwrap(file).commands
           /\ Materialized(loaded)
           /\ SemanticFields(loaded)
                = SemanticFields(migrate_legacy_config(Unwrap(file).commands, now))
           /\ \A t \in Later :
                  /\ ~ load_config_is_err(save_config_atomic(loaded))
                  /\ load_config(save_config_atomic(loaded), t).commands
                       = Unwrap(file).commands

\* a pre-tool event for "cat" was answered from the static mapping of a
\* legacy file
C17_Witness ==
    /\ IsLegacy(file)
    /\ DOMAIN Unwrap(file).commands # {}
    /\ ev.input.hook_event_name = "PreToolUse"
    /\ stdout # <<>>

----------------------------------------------------------------------------
(* Properties of the save, under SpecSave *)

\* what process p has in memory, as a complete policy file
Complete(p) == save_config_atomic(Unwrap(procs[p].config))

\* C12: save_atomic is all-or-nothing: a step changes the policy file only by
\* the rename of a process that has written its whole temporary file, and the
\* file is then that process's complete serialized policy; a save that fails
\* and a process that is killed leave the file as it was; the file never
\* holds a partly written text.
C12_AllOrNothing ==
    [][ /\ file' # file
           => \E p \in Procs : /\ procs[p].pc = "written"
                                /\ procs'[p].outcome = "saved"
                                /\ file' = Complete(p)
        /\ \A p \in Procs :
               (procs[p].outcome = "none" /\ procs'[p].outcome \in { "save_failed", "killed" })
               => file' = file ]_vars

\* one process was killed after it had written a part of its temporary file,
\* the other has saved: the policy file is the complete policy of the other
C12_Witness ==
    \E p \in Procs, q \in Procs :
        /\ procs[p].outcome = "killed"
        /\ TempName(p) \in DOMAIN temps
        /\ temps[TempName(p)] = Truncated(to_string_pretty(Unwrap(procs[p].config)))
        /\ procs[q].outcome = "saved"
        /\ file = Complete(q)

\* the processes that have renamed their temporary file over the policy file
Savers == { p \in Procs : procs[p].renamed > 0 }

\* the one that renamed last
LastSaver == CHOOSE p \in Savers : \A q \in Savers : procs[q].renamed <= procs[p].renamed

\* the policy files the event of p leaves when it is handled alone on the
\* policy p loaded
Alone(p) ==
    { o.file : o \in run_as_hook(procs[p].input, Unwrap(procs[p].loaded_from), FALSE, now) }

\* C13: when hook processes that loaded the same policy save, under every
\* interleaving the policy file is exactly the complete policy of the process
\* that renamed last, which is what that process's event alone makes of the
\* policy it loaded: the update of the other process is lost as a whole and
\* the file is never a mixture of the two.
C13_LastRenameWins ==
    Savers # {}
    => /\ file = Complete(LastSaver)
       /\ file \in Alone(LastSaver)
       /\ \A q \in Procs :
              (procs[q].loaded_from = procs[LastSaver].loaded_from
               /\ procs[q].input # procs[LastSaver].input /\ procs[q].outcome = "saved")
              => file # Complete(q)

\* two processes loaded the same policy, one learned a mapping and the other
\* recorded an execution, and both have saved
C13_Witness ==
    /\ \A p \in Procs : procs[p].outcome = "saved"
    /\ procs[1].loaded_from = procs[2].loaded_from
    /\ procs[1].input # procs[2].input

----------------------------------------------------------------------------
(* Properties of the learner, under SpecTeach *)

\* the scope of the row of shape n
RowScope(n, ctx) ==
    IF n \in { 3, 4 } THEN Scope("project", <<>>)
    ELSE IF n = 5 THEN Scope("context", to_lowercase(ctx))
    ELSE Scope("global", <<>>)

\* the confidence of the row of shape n, in 1/700ths: 0.95, 0.95, 0.92, 0.88,
\* 0.86, 0.90, 0.85
RowConfidence(n) == << 665, 665, 644, 616, 602, 630, 595 >>[n]

\* the well-known alternatives by name
NamedInferences ==
    { << T_bun, T_npm >>, << T_yarn, T_npm >>, << T_rg, T_grep >>, << T_fd, T_find >>,
      << T_bat, T_cat >>, << T_eza, T_ls >>, << T_podman, T_docker >>, << T_uv, T_pip >>,
      << T_bunx, T_npx >> }

\* original, replacement, scope and confidence of the extracted mappings
Learnt4(mappings) ==
    [ k \in 1..Len(mappings) |->
        << mappings[k].original, mappings[k].replacement, mappings[k].scope,
           mappings[k].confidence, mappings[k].source >> ]

TaughtPrompt == Unwrap(ev.input.prompt)

WasTaught == ev.handled

\* C18: a prompt that is one phrase of one of the seven productive shapes,
\* its keywords in lower case or in capitals, yields exactly one mapping: the
\* replacement X, the original Y (for shapes 4 and 5 the original inferred for
\* X), and the scope and confidence of the row: global 0.95, global 0.95,
\* project 0.92, project 0.88, context:<ctx lowercased> 0.86, global 0.90,
\* global 0.85.
C18_PatternTable ==
    WasTaught
    => /\ \A n \in TwoSided, x \in TaughtReplacements, y \in { T_cat, T_npm },
             shout \in BOOLEAN :
              TaughtPrompt = Phrase(n, x, y, T_react, shout)
              => Learnt4(ev.mappings)
                   = << << y, x, RowScope(n, T_react), RowConfidence(n),
                           "natural_language" >> >>
       /\ \A n \in { 4, 5 }, pr \in NamedInferences, ctx \in TaughtContexts,
             shout \in BOOLEAN :
              TaughtPrompt = Phrase(n, pr[1], T_cat, ctx, shout)
              => Learnt4(ev.mappings)
                   = << << pr[2], pr[1], RowScope(n, ctx), RowConfidence(n),
                           "natural_language" >> >>

\* "FOR React PROJECTS USE bun" was learned as npm -> bun for context react
\* at 0.86, and the policy file holds it
C18_Witness ==
    /\ WasTaught
    /\ TaughtPrompt = Phrase(5, T_bun, T_cat, <<"R","e","a","c","t">>, TRUE)
    /\ Len(ev.mappings) = 1
    /\ file # {}
    /\ T_react \in DOMAIN Unwrap(file).learned.context
    /\ T_npm \in DOMAIN Unwrap(file).learned.context[T_react]
    /\ Unwrap(file).learned.context[T_react][T_npm].replacement = T_bun
    /\ Unwrap(file).learned.context[T_react][T_npm].confidence = 602

Overlap(s, u) == s[1] < u[2] /\ s[2] > u[1]

\* the matches of all patterns on the prompt, in the order they are visited
Visited == AllCaptures(TaughtPrompt, 1)

SpanOf(k) == << Visited[k].m.start, Visited[k].m.end >>

Claimed(span) == \E n \in 1..Len(ev.used_spans) : ev.used_spans[n] = span

\* C19: patterns are visited in table order and matches never overlap: each
\* extracted mapping has its span, the spans are pairwise disjoint, a match
\* that would give a mapping is passed over only if a span claimed by the
\* same or an earlier pattern overlaps it, and "always use X instead of Y" and
\* "for this project, use X instead of Y" each yield one mapping.
C19_NoOverlap ==
    WasTaught
    => /\ Len(ev.used_spans) = Len(ev.mappings)
       /\ \A i \in 1..Len(ev.used_spans), j \in 1..Len(ev.used_spans) :
              i # j => ~ Overlap(ev.used_spans[i], ev.used_spans[j])
       /\ \A k \in 1..Len(Visited) :
              extract_mapping_from_captures(Visited[k].pattern, Visited[k].m.caps) # {}
              => \/ Claimed(SpanOf(k))
                 \/ \E j \in 1..(k - 1) : Claimed(SpanOf(j)) /\ Overlap(SpanOf(j), SpanOf(k))
       /\ \A n \in { 1, 3 }, x \in TaughtReplacements, y \in { T_cat, T_npm },
             shout \in BOOLEAN :
              TaughtPrompt = Phrase(n, x, y, T_react, shout) => Len(ev.mappings) = 1

\* a prompt of two phrases gave two mappings, and a match of a later pattern
\* inside the first phrase was passed over
C19_Witness ==
    /\ WasTaught
    /\ Len(ev.mappings) = 2
    /\ \E k \in 1..Len(Visited) :
           /\ extract_mapping_from_captures(Visited[k].pattern, Visited[k].m.caps) # {}
           /\ ~ Claimed(SpanOf(k))
           /\ Overlap(ev.used_spans[1], SpanOf(k))

\* C20: for the shapes that name only the replacement (4 and 5) the original
\* is the one the inference table gives (bun -> npm, yarn -> npm, rg -> grep,
\* fd -> find, bat -> cat, eza -> ls, podman -> docker, uv -> pip, bunx -> npx);
\* when the table has no entry for the replacement, and for a bare "let's use
\* X" (shape 8), no mapping is produced and the policy file is not changed.
C20_InferOrDiscard ==
    WasTaught
    => \A x \in TaughtReplacements, ctx \in TaughtContexts, shout \in BOOLEAN :
           /\ \A n \in { 4, 5 } :
                  TaughtPrompt = Phrase(n, x, T_cat, ctx, shout)
                  => /\ \A pr \in NamedInferences :
                            pr[1] = x => /\ Len(ev.mappings) = 1
                                         /\ ev.mappings[1].original = pr[2]
                                         /\ ev.mappings[1].replacement = x
                     /\ infer_original_from_replacement(x) = {}
                        => ev.mappings = <<>> /\ file = ev.before
           /\ TaughtPrompt = Phrase(8, x, T_cat, ctx, shout)
              => ev.mappings = <<>> /\ file = ev.before

\* "for this project use less": less has no entry, nothing was learned and
\* the policy file is as it was
C20_Witness ==
    /\ WasTaught
    /\ TaughtPrompt = Phrase(4, T_less, T_cat, T_react, FALSE)
    /\ ev.mappings = <<>>
    /\ ev.before = { ExtendedFile }
    /\ file = { ExtendedFile }

\* the entries of a scope in a policy
TierOf(config, scope) ==
    IF scope.kind = "project" THEN config.learned.project
    ELSE IF scope.kind = "context"
    THEN IF scope.name \in DOMAIN config.learned.context
         THEN config.learned.context[scope.name] ELSE EmptyMap
    ELSE config.learned.global

\* the policy the handler loaded and the policy it left on disk
PolicyBefore == load_config(ev.before, now)
PolicyAfter == Unwrap(file)

ScopesOf(config) ==
    { Scope("global", <<>>), Scope("project", <<>>) }
    \cup { Scope("context", n) : n \in DOMAIN config.learned.context }

\* the extractions of the prompt for an original in a scope, in order
ExtractionsFor(scope, original) ==
    { k \in 1..Len(ev.mappings) :
        ev.mappings[k].scope = scope /\ ev.mappings[k].original = original }

Newest(ks) == CHOOSE k \in ks : \A j \in ks : j <= k

\* C21: after a prompt that yields mappings, each (scope, original) that was
\* extracted holds the newest extraction for it with usage_count = 1 and
\* learned_at = now, whether or not the scope had the original before; every
\* other entry of every scope is as it was; total_mappings_learned and
\* session_mappings have grown by the number of extractions.
C21_StoredUnderScope ==
    (WasTaught /\ ev.mappings # <<>> /\ ~ load_config_is_err(ev.before))
    => /\ file # {}
       /\ \A scope \in ScopesOf(PolicyBefore) \cup ScopesOf(PolicyAfter)
                       \cup { ev.mappings[k].scope : k \in 1..Len(ev.mappings) } :
              \A original \in DOMAIN TierOf(PolicyBefore, scope)
                               \cup DOMAIN TierOf(PolicyAfter, scope)
                               \cup { ev.mappings[k].original : k \in 1..Len(ev.mappings) } :
                  IF ExtractionsFor(scope, original) # {}
                  THEN LET m == ev.mappings[Newest(ExtractionsFor(scope, original))]
                       IN  /\ original \in DOMAIN TierOf(PolicyAfter, scope)
                           /\ TierOf(PolicyAfter, scope)[original].replacement = m.replacement
                           /\ TierOf(PolicyAfter, scope)[original].confidence = m.confidence
                           /\ TierOf(PolicyAfter, scope)[original].usage_count = {1}
                           /\ TierOf(PolicyAfter, scope)[original].learned_at = now
                           /\ TierOf(PolicyAfter, scope)[original].learned_from
                                  = "natural_language"
                  ELSE /\ original \in DOMAIN TierOf(PolicyAfter, scope)
                          <=> original \in DOMAIN TierOf(PolicyBefore, scope)
                       /\ original \in DOMAIN TierOf(PolicyAfter, scope)
                          => TierOf(PolicyAfter, scope)[original]
                               = TierOf(PolicyBefore, scope)[original]
       /\ \A a \in PolicyAfter.learning_meta, b \in PolicyBefore.learning_meta :
              /\ a.total_mappings_learned = b.total_mappings_learned + Len(ev.mappings)
              /\ a.session_mappings = b.session_mappings + Len(ev.mappings)
       /\ PolicyAfter.learning_meta # {}

\* on day 1 "use bat instead of cat and i prefer less over cat" replaced the
\* global cat -> less (used three times, learned on day 0) by the entry of
\* the later extraction; global npm and the project's cat are as they were
C21_Witness ==
    /\ WasTaught
    /\ now = 1
    /\ ev.before = { TaughtFile }
    /\ Len(ev.mappings) = 2
    /\ ExtractionsFor(Scope("global", <<>>), T_cat) = { 1, 2 }
    /\ PolicyAfter.learned.global[T_cat].replacement = ev.mappings[2].replacement
    /\ PolicyAfter.learned.global[T_cat].replacement # T_less
    /\ PolicyAfter.learned.global[T_cat].usage_count = {1}
    /\ PolicyAfter.learned.global[T_cat].learned_at = 1
    /\ PolicyAfter.learned.global[T_npm] = TaughtFile.learned.global[T_npm]
    /\ PolicyAfter.learned.project = TaughtFile.learned.project
    /\ Unwrap(PolicyAfter.learning_meta).total_mappings_learned = 2

----------------------------------------------------------------------------
(* Properties of the execution analyzer, under SpecAnalyze *)

WasAnalyzed == ev.handled

\* the suggestion_stats entries that qualify for promotion
Qualifying(config) ==
    { key \in DOMAIN config.execution_history.suggestion_stats :
        /\ config.execution_history.suggestion_stats[key].times_accepted >= MIN_ATTEMPTS
        /\ BelowFailureThreshold(
               config.execution_history.suggestion_stats[key].effectiveness_score) }

\* the original and the replacement of a suggestion_stats key
OriginalOf(key) == Unwrap(split_once(key, Arrow))[1]
ReplacementOf(key) == Unwrap(split_once(key, Arrow))[2]

KeyedIn(config, original) ==
    \/ original \in DOMAIN config.learned.global
    \/ original \in DOMAIN config.learned.project
    \/ \E n \in DOMAIN config.learned.context : original \in DOMAIN config.learned.context[n]

\* nothing is promoted without a qualifying entry: a new never_suggest key
\* and a learned key that disappeared are originals of qualifying entries
OnlyQualifyingPromoted ==
    /\ \A o \in DOMAIN PolicyAfter.never_suggest :
           \/ o \in DOMAIN PolicyBefore.never_suggest
              /\ PolicyAfter.never_suggest[o] = PolicyBefore.never_suggest[o]
           \/ \E key \in Qualifying(PolicyAfter) :
                  o = OriginalOf(key) /\ PolicyAfter.never_suggest[o] = ReplacementOf(key)
    /\ \A o \in DOMAIN PolicyBefore.never_suggest : o \in DOMAIN PolicyAfter.never_suggest
    /\ \A o \in DOMAIN PolicyBefore.learned.global \cup DOMAIN PolicyBefore.learned.project :
           KeyedIn(PolicyAfter, o) \/ \E key \in Qualifying(PolicyAfter) : o = OriginalOf(key)

\* C22 as stated: when housekeeping has run, every qualifying entry "O->R"
\* has never_suggest[O] = R and O in no learned tier, and nothing else was
\* promoted.
C22_PromotionStep_AsStated ==
    (WasAnalyzed /\ ev.maintenance)
    => /\ \A key \in Qualifying(PolicyAfter) :
              /\ OriginalOf(key) \in DOMAIN PolicyAfter.never_suggest
              /\ PolicyAfter.never_suggest[OriginalOf(key)] = ReplacementOf(key)
              /\ ~ KeyedIn(PolicyAfter, OriginalOf(key))
       /\ OnlyQualifyingPromoted

\* C22: when housekeeping has run, for every qualifying entry "O->R" the
\* original O is a never_suggest key whose value is the replacement of a
\* qualifying entry for O (R itself when O has one qualifying entry), and O
\* is in no learned tier; nothing else was promoted.
C22_PromotionStep ==
    (WasAnalyzed /\ ev.maintenance)
    => /\ \A key \in Qualifying(PolicyAfter) :
              /\ OriginalOf(key) \in DOMAIN PolicyAfter.never_suggest
              /\ \E other \in Qualifying(PolicyAfter) :
                     /\ OriginalOf(other) = OriginalOf(key)
                     /\ PolicyAfter.never_suggest[OriginalOf(key)] = ReplacementOf(other)
              /\ ~ KeyedIn(PolicyAfter, OriginalOf(key))
       /\ OnlyQualifyingPromoted

\* housekeeping ran with a qualifying and a non-qualifying state of the same
\* kind of entry: cat -> bat was promoted out of the global and the project
\* tier
C22_Witness ==
    /\ WasAnalyzed
    /\ ev.maintenance
    /\ Qualifying(PolicyAfter) = { StatsKey(T_cat, T_bat) }
    /\ KeyedIn(PolicyBefore, T_cat)
    /\ T_cat \in DOMAIN PolicyBefore.learned.project
    /\ T_cat \notin DOMAIN PolicyBefore.never_suggest
    /\ PolicyAfter.never_suggest[T_cat] = T_bat
    /\ ~ KeyedIn(PolicyAfter, T_cat)

\* the execution was correlated with a mapping of a learned tier
Correlated == Unwrap(ev.correlated)

CorrelatedWithLearned ==
    /\ WasAnalyzed
    /\ ev.correlated # {}
    /\ Correlated.source.kind \in { "global_learned", "project_learned", "context" }

CorrelatedScope ==
    IF Correlated.source.kind = "project_learned" THEN Scope("project", <<>>)
    ELSE IF Correlated.source.kind = "context" THEN Scope("context", Correlated.source.name)
    ELSE Scope("global", <<>>)

Executed == Unwrap(ev.input.command)

Succeeded == ev.input.exit_code \in { {}, {0} }

\* the keys of the correlated tier whose replacement the executed command
\* contains: the mappings the execution is correlated with
CorrelatedKeys ==
    { o \in DOMAIN TierOf(PolicyBefore, CorrelatedScope) :
        /\ TierOf(PolicyBefore, CorrelatedScope)[o].replacement = Correlated.replacement
        /\ Contains(Executed, Correlated.replacement) }

\* the confidence of key o of the correlated tier went up by 0.05 or down by
\* 0.10, within [0, 1], and every other learned entry is as it was
AdjustedAt(o) ==
    /\ o \in DOMAIN TierOf(PolicyAfter, CorrelatedScope)
    /\ TierOf(PolicyAfter, CorrelatedScope)[o].confidence
          = Clamp01(TierOf(PolicyBefore, CorrelatedScope)[o].confidence
                    + (IF Succeeded THEN SuccessAdjustment ELSE 0 - FailureAdjustment))
    /\ \A scope \in ScopesOf(PolicyBefore) \cup ScopesOf(PolicyAfter) :
           /\ DOMAIN TierOf(PolicyAfter, scope) = DOMAIN TierOf(PolicyBefore, scope)
           /\ \A other \in DOMAIN TierOf(PolicyBefore, scope) :
                  (scope # CorrelatedScope \/ other # o)
                  => TierOf(PolicyAfter, scope)[other] = TierOf(PolicyBefore, scope)[other]

\* C26: after a post-tool execution correlated with a learned mapping of
\* original O in tier T (housekeeping not running in the same event) the
\* confidence of key O in tier T has changed by +0.05 on success or -0.10 on
\* failure, up to the clamp, and no other entry has changed.
C26_ConfidenceAdjusted ==
    (CorrelatedWithLearned /\ ~ ev.maintenance)
    => \E o \in CorrelatedKeys : AdjustedAt(o)

\* the same statement for executions that are the bare replacement ("bat")
C26_BareAdjusted ==
    (CorrelatedWithLearned /\ ~ ev.maintenance /\ Executed = Correlated.replacement)
    => \E o \in CorrelatedKeys : AdjustedAt(o)

\* "bat f" succeeded, was correlated with the global cat -> bat, and the
\* confidence of cat is what it was
C26_Unadjusted ==
    /\ CorrelatedWithLearned
    /\ ~ ev.maintenance
    /\ Executed = C_bat_f
    /\ Succeeded
    /\ Correlated.source.kind = "global_learned"
    /\ CorrelatedKeys = { T_cat }
    /\ PolicyAfter.learned.global[T_cat].confidence
          = PolicyBefore.learned.global[T_cat].confidence
    /\ PolicyBefore.learned.global[T_cat].confidence < FullConfidence

\* the suggestion_stats key of the correlated execution
CorrelatedKey == StatsKey(Correlated.original_cmd, Correlated.replacement)

StatsBefore == PolicyBefore.execution_history.suggestion_stats
StatsAfter == PolicyAfter.execution_history.suggestion_stats

\* the counters of the key before the execution: those of its entry, or
\* zero when there is none
AcceptedBefore ==
    IF CorrelatedKey \in DOMAIN StatsBefore THEN StatsBefore[CorrelatedKey].times_accepted
    ELSE 0

SuccessfulBefore ==
    IF CorrelatedKey \in DOMAIN StatsBefore THEN StatsBefore[CorrelatedKey].times_successful
    ELSE 0

\* times_accepted has grown by one, times_successful by one iff the execution
\* succeeded, and effectiveness is times_successful / max(1, times_accepted)
CountedOnce ==
    /\ CorrelatedKey \in DOMAIN StatsAfter
    /\ StatsAfter[CorrelatedKey].times_accepted = AcceptedBefore + 1
    /\ StatsAfter[CorrelatedKey].times_successful
          = SuccessfulBefore + (IF Succeeded THEN 1 ELSE 0)
    /\ StatsAfter[CorrelatedKey].effectiveness_score.num
          * Max(1, StatsAfter[CorrelatedKey].times_accepted)
          = StatsAfter[CorrelatedKey].times_successful
            * StatsAfter[CorrelatedKey].effectiveness_score.den

\* C27: each correlated post-tool execution increments times_accepted of its
\* suggestion_stats entry by exactly one and times_successful by one iff it
\* succeeded, and recomputes effectiveness; an entry that did not exist
\* counts from zero, so that n executions with k successes leave n and k.
C27_StatsCounted == (WasAnalyzed /\ ev.correlated # {}) => CountedOnce

\* the same statement for executions whose entry already existed
C27_LaterCounted ==
    (WasAnalyzed /\ ev.correlated # {} /\ CorrelatedKey \in DOMAIN StatsBefore)
    => CountedOnce

\* the first correlated execution of cat -> bat, a success, left
\* times_accepted = 2 and times_successful = 2
C27_CountedTwice ==
    /\ WasAnalyzed
    /\ ev.correlated # {}
    /\ CorrelatedKey = StatsKey(T_cat, T_bat)
    /\ CorrelatedKey \notin DOMAIN StatsBefore
    /\ Succeeded
    /\ StatsAfter[CorrelatedKey].times_accepted = 2
    /\ StatsAfter[CorrelatedKey].times_successful = 2

----------------------------------------------------------------------------
(* Properties of the never-suggest list, under SpecNever *)

NeverSuggest(f) == IF f = {} THEN EmptyMap ELSE Unwrap(f).never_suggest

\* C28: no pre-tool, user-prompt or post-tool event removes a never_suggest
\* key, and a pre-tool event of the shell tool whose command
\* matches a never_suggest key prints nothing, whatever the learned tiers
\* hold.
C28_NeverSuggestPermanent ==
    [][ /\ DOMAIN NeverSuggest(file) \subseteq DOMAIN NeverSuggest(file')
        /\ \A o \in DOMAIN NeverSuggest(file) :
              ( /\ ev'.input.hook_event_name = "PreToolUse"
                /\ ev'.input.tool_name = "Bash"
                /\ IsMatch(o, Unwrap(ev'.input.command)) )
              => stdout' = <<>> /\ exit_status' = 0 ]_vars

\* cat is on never_suggest, cat -> bat has been learned again at 0.90, and
\* the pre-tool event for "cat f" printed nothing
C28_Witness ==
    /\ T_cat \in DOMAIN NeverSuggest(file)
    /\ T_cat \in DOMAIN Unwrap(file).learned.global
    /\ Unwrap(file).learned.global[T_cat].confidence = 630
    /\ ev.input.hook_event_name = "PreToolUse"
    /\ ev.input.tool_name = "Bash"
    /\ ev.input.command = { C_cat_f }
    /\ stdout = <<>>

----------------------------------------------------------------------------
(* Properties of the execution record, under SpecRing *)

WasRecorded == ev.before # {}

ExecutionsBefore == PolicyBefore.execution_history.command_executions
ExecutionsAfter == PolicyAfter.execution_history.command_executions

\* the statistics the event leaves on the policy it met with an empty
\* execution record
StatisticsWithoutRecord ==
    { [ suggestion_stats |-> a.config.execution_history.suggestion_stats,
        mapping_correlations |-> a.config.execution_history.mapping_correlations ]
      : a \in analyze_and_update_execution(
                  [PolicyBefore EXCEPT !.execution_history.command_executions = <<>>],
                  CommandExecution(Unwrap(ev.input.command), Unwrap(ev.input.exit_code)),
                  now) }

\* C29: after a post-tool event command_executions holds at most 1000
\* entries: the execution of the event comes last, before it come the
\* entries already recorded, in their order, short of the oldest ones that
\* had to go, and suggestion_stats and mapping_correlations are what the
\* event makes of them whatever the record holds.
C29_RingBuffer ==
    WasRecorded =>
        LET n == Len(ExecutionsAfter)
            dropped == Len(ExecutionsBefore) + 1 - n
        IN  /\ n = Min(Len(ExecutionsBefore) + 1, MAX_EXECUTION_HISTORY)
            /\ ExecutionsAfter[n].command = Unwrap(ev.input.command)
            /\ ExecutionsAfter[n].exit_code = ev.input.exit_code
            /\ \A i \in 1..(n - 1) : ExecutionsAfter[i] = ExecutionsBefore[i + dropped]
            /\ [ suggestion_stats |-> PolicyAfter.execution_history.suggestion_stats,
                 mapping_correlations |-> PolicyAfter.execution_history.mapping_correlations ]
                   \in StatisticsWithoutRecord

\* the third execution of bat met a full record that had already lost its
\* two oldest entries, and the statistics of cat -> bat count it
C29_Witness ==
    /\ WasRecorded
    /\ Len(ExecutionsBefore) = MAX_EXECUTION_HISTORY
    /\ ExecutionsBefore[1].exit_code = { 3 }
    /\ ExecutionsAfter[1].exit_code = { 4 }
    /\ ev.input.command = { T_bat }
    /\ PolicyAfter.execution_history.suggestion_stats
           # PolicyBefore.execution_history.suggestion_stats

----------------------------------------------------------------------------
(* Properties of housekeeping, under SpecAnalyze *)

\* every learned entry of the policy is still there, with the confidence it
\* had or the one a success or a failure of its replacement gives it
OnlyAdjusted(before, after) ==
    /\ ScopesOf(after) = ScopesOf(before)
    /\ \A scope \in ScopesOf(before) :
          LET m == TierOf(before, scope)
          IN  /\ DOMAIN TierOf(after, scope) = DOMAIN m
              /\ \A o \in DOMAIN m :
                    TierOf(after, scope)[o] \in
                        { m[o], AdjustIn(m, o, TRUE)[o], AdjustIn(m, o, FALSE)[o] }

\* C30: a post-tool event runs housekeeping only if housekeeping has not
\* run that day and the policy then records at least 10 executions; an event
\* on a day on which housekeeping has run does not run it, adds nothing to
\* never_suggest, removes no learned entry and changes no confidence other
\* than by the adjustment for its own outcome.
C30_HousekeepingGated ==
    [][ now' = now =>
          /\ ev'.maintenance =>
                /\ now \notin ev.ran_on
                /\ Len(Unwrap(file').execution_history.command_executions)
                       >= MIN_EXECUTIONS_FOR_MAINTENANCE
          /\ now \in ev.ran_on =>
                /\ ~ ev'.maintenance
                /\ NeverSuggest(file') = NeverSuggest(file)
                /\ OnlyAdjusted(Unwrap(file), Unwrap(file')) ]_vars

\* housekeeping ran on the tenth execution and the eleventh, an execution of
\* bat on the same day that the learned mapping accounts for, did not run it
C30_Witness ==
    /\ now \in ev.ran_on
    /\ ~ ev.maintenance
    /\ ev.input.command = { T_bat }
    /\ ev.correlated # {}
    /\ Len(ExecutionsAfter) = MIN_EXECUTIONS_FOR_MAINTENANCE + 1
    /\ PolicyAfter.learned # PolicyBefore.learned

----------------------------------------------------------------------------
(* Properties of the resolver on ties, under SpecTie *)

\* C31: of two pre-tool events in a row with the same command and mode on
\* the same policy, the second prints what the first printed.
C31_TieDeterministic ==
    [][ ( /\ ev.input.hook_event_name = "PreToolUse"
          /\ ev'.input = ev.input
          /\ ev'.replace_mode = ev.replace_mode
          /\ file' = file )
        => stdout' = stdout ]_vars

\* "npm start" on a policy whose static table holds npm and "npm start" and
\* that has no learned entry: the event printed "bun dev" where another
\* invocation prints "bun start"
C31_TieOpen ==
    /\ ev.input.hook_event_name = "PreToolUse"
    /\ ev.input.command = { C_npm_start }
    /\ ev.replace_mode
    /\ Unwrap(file).learned.project = EmptyMap
    /\ Unwrap(file).learned.context = EmptyMap
    /\ Len(stdout) = 1
    /\ stdout[1].replacement_command = { C_bun_dev }
    /\ \E r \in resolve_command_mapping(Unwrap(file), C_npm_start) :
           r.replacement_command = T_bun \o <<" ">> \o T_start

----------------------------------------------------------------------------
(* Properties of executions over months, under SpecMaintain *)

IsExecution == ev.before # {} /\ ev.input.hook_event_name = "PostToolUse"

Uncorrelated == ev.correlated = {}
StaticOnly == ev.correlated # {} /\ Unwrap(ev.correlated).source.kind = "static"

LastRecorded == ExecutionsAfter[Len(ExecutionsAfter)]

\* the execution of the event is the new last entry of the record, and an
\* uncorrelated one is marked as not suggested and leaves the statistics alone
RecordedOnly ==
    /\ Len(ExecutionsAfter) = Len(ExecutionsBefore) + 1
    /\ SubSeq(ExecutionsAfter, 1, Len(ExecutionsBefore)) = ExecutionsBefore
    /\ LastRecorded.command = Unwrap(ev.input.command)
    /\ LastRecorded.exit_code = ev.input.exit_code
    /\ Uncorrelated =>
          /\ ~ LastRecorded.was_suggested
          /\ PolicyAfter.execution_history.suggestion_stats
                = PolicyBefore.execution_history.suggestion_stats
          /\ PolicyAfter.execution_history.mapping_correlations
                = PolicyBefore.execution_history.mapping_correlations

SameConfidences(before, after) ==
    /\ ScopesOf(after) = ScopesOf(before)
    /\ \A scope \in ScopesOf(before) :
          /\ DOMAIN TierOf(after, scope) = DOMAIN TierOf(before, scope)
          /\ \A o \in DOMAIN TierOf(before, scope) :
                TierOf(after, scope)[o].confidence = TierOf(before, scope)[o].confidence

\* C32 as stated: an execution that is uncorrelated or correlated with a
\* static mapping is recorded and leaves every learned confidence as it was.
C32_ConfidenceUntouched_AsStated ==
    (IsExecution /\ (Uncorrelated \/ StaticOnly)) =>
        RecordedOnly /\ SameConfidences(PolicyBefore, PolicyAfter)

\* C32: an execution that is uncorrelated or correlated with a static
\* mapping is recorded, and leaves every learned confidence as it was unless
\* the event runs housekeeping.
C32_ConfidenceUntouched ==
    (IsExecution /\ (Uncorrelated \/ StaticOnly)) =>
        /\ RecordedOnly
        /\ ~ ev.maintenance => SameConfidences(PolicyBefore, PolicyAfter)

\* a failed execution of eza, which the static mapping ls -> eza accounts
\* for, was recorded as suggested and counted, and no confidence moved
C32_Witness ==
    /\ IsExecution
    /\ StaticOnly
    /\ ev.input.command = { T_eza }
    /\ ev.input.exit_code = { 1 }
    /\ ~ ev.maintenance
    /\ LastRecorded.was_suggested
    /\ PolicyAfter.execution_history.suggestion_stats
          # PolicyBefore.execution_history.suggestion_stats
    /\ PolicyAfter.learned = PolicyBefore.learned

\* min(0.30, 0.02 * days / 7) in 1/700ths
DecayAfter(days) == IF 2 * days < 210 THEN 2 * days ELSE 210

\* a confidence less the decay, not below 0.10
DecayedFrom(confidence, days) ==
    IF confidence - DecayAfter(days) < 70 THEN 70 ELSE confidence - DecayAfter(days)

\* the confidences an entry can have once the outcome of the execution is
\* accounted for
AdjustedFrom(m, o) ==
    { m[o].confidence, AdjustIn(m, o, TRUE)[o].confidence,
      AdjustIn(m, o, FALSE)[o].confidence }

\* C33: an event that runs housekeeping leaves every learned mapping, in the
\* global, the project and every context tier, with its confidence less
\* min(0.30, 0.02 * days since learned_at / 7) and not below 0.10; after an
\* execution that no learned mapping accounts for the confidence it is
\* taken from is the one the mapping had.
C33_Decay ==
    [][ ( /\ now' = now
          /\ ev'.input.hook_event_name = "PostToolUse"
          /\ ev'.maintenance )
        => LET before == Unwrap(file)
               after == Unwrap(file')
           IN  /\ ScopesOf(after) = ScopesOf(before)
               /\ \A scope \in ScopesOf(before) :
                     LET m == TierOf(before, scope)
                     IN  /\ DOMAIN TierOf(after, scope) = DOMAIN m
                         /\ \A o \in DOMAIN m :
                               /\ TierOf(after, scope)[o].confidence \in
                                     { DecayedFrom(x, now - m[o].learned_at)
                                       : x \in AdjustedFrom(m, o) }
                               /\ ( \/ ev'.correlated = {}
                                    \/ Unwrap(ev'.correlated).source.kind = "static" )
                                  => TierOf(after, scope)[o].confidence
                                        = DecayedFrom(m[o].confidence,
                                                      now - m[o].learned_at) ]_vars

\* housekeeping ran 106 days after the mappings were learned at full
\* confidence, on an execution of ls, and the global and the context mapping
\* are both at 0.70
C33_Witness ==
    /\ IsExecution
    /\ ev.maintenance
    /\ now = 106
    /\ ev.ran_on = { 106 }
    /\ ev.input.command = { T_ls }
    /\ PolicyBefore.learned.global[T_cat].confidence = FullConfidence
    /\ PolicyBefore.learned.global[T_cat].learned_at = 0
    /\ PolicyAfter.learned.global[T_cat].confidence = 490
    /\ PolicyAfter.learned.context[T_react][T_more].confidence = 490

\* the tiers of the policy the event met that hold a mapping whose
\* replacement the executed command contains
Accounting(command) ==
    { "project_learned" : x \in find_command_correlation(PolicyBefore.learned.project,
                                                         command) }
    \cup { "context" : x \in UNION { find_command_correlation(
                                         PolicyBefore.learned.context[n], command)
                                     : n \in DOMAIN PolicyBefore.learned.context } }
    \cup { "global_learned" : x \in find_command_correlation(PolicyBefore.learned.global,
                                                            command) }
    \cup { "static" : x \in find_command_correlation_static(PolicyBefore.commands,
                                                            command) }

FirstOf(order, tiers) ==
    IF \E k \in 1..Len(order) : order[k] \in tiers
    THEN { order[CHOOSE k \in 1..Len(order) :
                    /\ order[k] \in tiers
                    /\ \A j \in 1..(k - 1) : order[j] \notin tiers] }
    ELSE {}

RecordedSource == { c.source.kind : c \in ev.correlated }

\* C34: the correlation an execution is recorded with is the one of the
\* first tier, in the order project, context, global, static, that holds a
\* mapping whose replacement the command contains.
C34_CorrelationOrder ==
    IsExecution =>
        RecordedSource = FirstOf(<< "project_learned", "context", "global_learned", "static" >>,
                                 Accounting(Unwrap(ev.input.command)))

\* the order of the code: project, global, context, static
C34_GlobalFirst ==
    IsExecution =>
        RecordedSource = FirstOf(<< "project_learned", "global_learned", "context", "static" >>,
                                 Accounting(Unwrap(ev.input.command)))

\* bat succeeded on a policy with cat -> bat in the global tier and
\* more -> bat in the context react and no project mapping: the execution is
\* recorded for the global mapping, whose confidence moved, and the context
\* mapping is as it was
C34_GlobalBeforeContext ==
    /\ IsExecution
    /\ ev.input.command = { T_bat }
    /\ ev.input.exit_code = { 0 }
    /\ ~ ev.maintenance
    /\ PolicyBefore.learned.project = EmptyMap
    /\ T_react \in DOMAIN PolicyBefore.learned.context
    /\ PolicyBefore.learned.global[T_cat].confidence = 72
    /\ RecordedSource = { "global_learned" }
    /\ LastRecorded.original_command = { T_cat }
    /\ PolicyAfter.learned.global[T_cat].confidence = 72 + SuccessAdjustment
    /\ PolicyAfter.learned.context = PolicyBefore.learned.context

----------------------------------------------------------------------------
(* Properties of the statistics, under SpecAnalyze *)

\* a ratio between 0 and 1
InUnitInterval(r) == r.den > 0 /\ 0 <= r.num /\ r.num <= r.den

\* C35: in every suggestion_stats entry times_successful is at most
\* times_accepted and the effectiveness lies in [0, 1]; in every
\* mapping_correlations entry successful_executions is at most
\* total_executions and the success rate lies in [0, 1].
C35_StatisticsInRange ==
    LET history == PolicyAfter.execution_history
    IN  /\ \A k \in DOMAIN history.suggestion_stats :
              /\ history.suggestion_stats[k].times_successful
                    <= history.suggestion_stats[k].times_accepted
              /\ InUnitInterval(history.suggestion_stats[k].effectiveness_score)
        /\ \A o \in DOMAIN history.mapping_correlations :
              /\ history.mapping_correlations[o].successful_executions
                    <= history.mapping_correlations[o].total_executions
              /\ InUnitInterval(history.mapping_correlations[o].success_rate)

\* after an execution of bat the entries of cat -> bat count at least five
\* executions of which some succeeded and some failed
C35_Witness ==
    /\ WasAnalyzed
    /\ ev.input.command = { T_bat }
    /\ StatsKey(T_cat, T_bat) \in DOMAIN PolicyAfter.execution_history.suggestion_stats
    /\ LET st == PolicyAfter.execution_history.suggestion_stats[StatsKey(T_cat, T_bat)]
           co == PolicyAfter.execution_history.mapping_correlations[T_cat]
       IN  /\ st.times_accepted >= MIN_ATTEMPTS
           /\ 0 < st.times_successful /\ st.times_successful < st.times_accepted
           /\ 0 < st.effectiveness_score.num
           /\ st.effectiveness_score.num < st.effectiveness_score.den
           /\ 0 < co.successful_executions
           /\ co.successful_executions < co.total_executions

----------------------------------------------------------------------------
(* Properties of pre-tool events, under SpecNever *)

\* C36: a pre-tool event leaves the policy file as it was, whether it
\* prints a block, a replacement or nothing.
C36_PreToolReadOnly ==
    [][ ev'.input.hook_event_name = "PreToolUse" => file' = file ]_vars

\* a pre-tool event for "cat f" printed a replacement from a policy that
\* holds learned mappings and statistics
C36_Witness ==
    /\ ev.input.hook_event_name = "PreToolUse"
    /\ ev.input.command = { C_cat_f }
    /\ ev.replace_mode
    /\ Len(stdout) = 1
    /\ stdout[1].decision = "replace"
    /\ Unwrap(file).learned.global # EmptyMap
    /\ Unwrap(file).execution_history.suggestion_stats # EmptyMap

----------------------------------------------------------------------------
(* Properties of the housekeeping timer, under SpecMaintain *)

LastUpdated(f) == { m.last_updated : m \in Unwrap(f).learning_meta }

\* a post-tool event that meets at least 10 recorded executions, at least a
\* day after the last housekeeping run
HousekeepingDue ==
    /\ now' = now
    /\ ev'.input.hook_event_name = "PostToolUse"
    /\ Len(Unwrap(file).execution_history.command_executions)
          >= MIN_EXECUTIONS_FOR_MAINTENANCE
    /\ ev.ran_on # {}
    /\ \A d \in ev.ran_on : now - d >= MAINTENANCE_INTERVAL_DAYS

\* C37: a post-tool event that meets at least 10 recorded executions, at
\* least a day after housekeeping last ran, runs housekeeping.
C37_NotStarved ==
    [][ HousekeepingDue => ev'.maintenance ]_vars

\* the same when nothing was learned since housekeeping last ran
C37_NotStarvedUntaught ==
    [][ (HousekeepingDue /\ LastUpdated(file) \subseteq ev.ran_on) => ev'.maintenance ]_vars

\* housekeeping ran on day 1; a mapping was learned on day 105 or later and
\* the execution after it, the eleventh, did not run housekeeping
C37_Starved ==
    /\ IsExecution
    /\ ~ ev.maintenance
    /\ ev.ran_on = { 1 }
    /\ Len(ExecutionsBefore) = MIN_EXECUTIONS_FOR_MAINTENANCE
    /\ \E t \in LastUpdated(ev.before) : t >= 105
    /\ \A m \in PolicyBefore.learning_meta : m.total_mappings_learned = 1

\* the confidences of the mappings to bat
BatConfidences ==
    UNION { { TierOf(PolicyAfter, scope)[o].confidence
              : o \in { x \in DOMAIN TierOf(PolicyAfter, scope) :
                          TierOf(PolicyAfter, scope)[x].replacement = T_bat } }
            : scope \in ScopesOf(PolicyAfter) }

NoneFailed == \A k \in 1..Len(ExecutionsAfter) : ExecutionsAfter[k].success

\* C38: while no recorded execution has failed, a learned mapping's
\* confidence is at most 0.30 below the confidence it was learned with,
\* however many housekeeping runs there were.
C38_DecayBounded ==
    NoneFailed => \A c \in BatConfidences : c >= ev.learned_with - MaxDecay

\* housekeeping ran on day 105 and on day 106, on executions of ls, and the
\* mappings learned at 1.0 on day 0 are at 0.40
C38_ChargedAgain ==
    /\ IsExecution
    /\ NoneFailed
    /\ ev.ran_on = { 105, 106 }
    /\ ev.input.command = { T_ls }
    /\ ev.learned_with = FullConfidence
    /\ \A m \in PolicyAfter.learning_meta : m.total_mappings_learned = 0
    /\ BatConfidences = { 280 }

----------------------------------------------------------------------------
(* Properties of the usage counter, under SpecTeach *)

\* Option<u32> as a number, None counting as 0
Count(usage_count) == IF usage_count = {} THEN 0 ELSE Unwrap(usage_count)

----------------------------------------------------------------------------
(* Properties of a lost promotion, under SpecRecover *)

\* the processes that saved a policy with cat on never_suggest
Promoters ==
    { p \in Procs : /\ procs[p].outcome = "saved"
                    /\ T_cat \in DOMAIN Unwrap(procs[p].config).never_suggest }

\* a process promoted cat and saved, and the process that saved last had
\* loaded the policy before and saved one without the promotion
Overwritten ==
    /\ AllExited
    /\ Promoters # {}
    /\ \E q \in Procs \ Promoters :
          /\ procs[q].outcome = "saved"
          /\ \A p \in Promoters : procs[q].renamed > procs[p].renamed
          /\ \A p \in Promoters : procs[q].loaded_from # { { to_string_pretty(Unwrap(procs[p].config)) } }

PromotionLost == Overwritten /\ T_cat \notin DOMAIN NeverSuggest(file)

====
